---------------------------- MODULE Spec2Model ----------------------------
(***************************************************************************)
(* Compliance filing pipeline: the job state machine of                    *)
(* backend/api/routes.py, the job table of                                 *)
(* backend/knowledge_base/postgres_client.py and the orchestrator          *)
(* create_compliance_crew of backend/orchestration/crew.py; the            *)
(* normalizer, the report classifier and the SAR and CTR field mappers of  *)
(* backend/tools/field_mapper.py; the PDF filers of                        *)
(* backend/tools/pdf_tools.py and the cached lookups of                    *)
(* backend/knowledge_base/kb_manager.py.                                   *)
(*                                                                         *)
(* Five specifications: Spec is the pipeline; FieldMapperSpec applies the  *)
(* normalizer and the classifier to a set of case data; MapperSpec runs    *)
(* each mapper, and runs it again, on a set of cases; FilerSpec calls a    *)
(* filer's fill_from_dict on a case and a PDF template; KBSpec is the      *)
(* knowledge base with its cache, its store and the clock.                 *)
(*                                                                         *)
(* Python values are encoded as follows.  An optional value is a sequence  *)
(* of length at most one: None is << >> and a value v is << v >>.  JSON    *)
(* scalars carried by agent outputs are strings in Python repr notation    *)
(* ("True", "'false'", "None"), and "<absent>" marks a key that the dict   *)
(* does not have.  An exception is the string str(exc).  The case data of  *)
(* field_mapper.py are JSON values with their Python type: a record of the *)
(* type t and, by type, the text s, the number n, the items xs or the      *)
(* mapping kv; texts are handled character by character.  Amounts are      *)
(* whole dollars.  A call that may raise yields a record of the exception  *)
(* raised (None when it returned) and the value returned.                  *)
(***************************************************************************)
EXTENDS Integers, Sequences, FiniteSets, TLC

(* ------------------------------ bounds --------------------------------- *)

\* Number of pipeline runs (API jobs or script invocations) in one behaviour.
NumRuns == 1

\* Number of status polls a client makes per run.
MaxPolls == 1

\* The days on which a mapper runs.
NumDays == 2

Days == 1..NumDays

Runs == 1..NumRuns

(* --------------------------- python helpers ---------------------------- *)

None == << >>

Some(v) == << v >>

\* Python truthiness of an optional string ("if current_agent:", "if error:").
TruthyStr(opt) == opt # None /\ opt[1] # ""

\* Python truthiness of a JSON scalar in repr notation; a missing key reads
\* as None through dict.get.
Truthy(repr) == repr \notin {"<absent>", "None", "False", "0", "''", "[]", "{}"}

\* Python truthiness of an optional dict ("if result:"): None and the empty
\* dict are false.
TruthyDict(opt) == opt # None /\ DOMAIN opt[1] # {}


(* ------------------ job table (postgres_client.py) --------------------- *)

\* JobStatusEnum
JobStatusEnum == {"pending", "processing", "completed", "failed"}

\* The job_status table is a function from the persisted job ids to rows;
\* session.get(JobStatus, id) finds a row iff id is in its domain.
HasRow(table, job_id) == job_id \in DOMAIN table

Put(table, job_id, row) ==
    [k \in DOMAIN table \cup {job_id} |-> IF k = job_id THEN row ELSE table[k]]

\* Exit of "with self._session() as session:".  _session returns a bare
\* Session, whose __exit__ closes the session; the committing context manager
\* session_scope is defined in the file and used by no method, and no method
\* calls commit.  Closing discards the unit of work: the table keeps the
\* committed rows and the rows added or changed in the session are dropped.
SessionExit(committed, working) == committed

\* PostgreSQLClient.create_job: the new row as the session holds it.
NewJobRecord(input_data) ==
    [status        |-> "pending",
     current_agent |-> None,
     progress      |-> 0,
     input_data    |-> input_data,
     result        |-> None,
     error_message |-> None]

create_job(table, job_id, input_data) ==
    SessionExit(table, Put(table, job_id, NewJobRecord(input_data)))

\* The assignments of update_job_status to the record it loaded.
UpdatedRecord(record, status, current_agent, progress, result, error) ==
    [record EXCEPT
        !.status        = status,
        !.current_agent = IF TruthyStr(current_agent) THEN current_agent ELSE @,
        !.progress      = IF progress # None THEN progress[1] ELSE @,
        !.result        = IF TruthyDict(result) THEN result ELSE @,
        !.error_message = IF TruthyStr(error) THEN error ELSE @]

\* PostgreSQLClient.update_job_status: raises ValueError("Job not found")
\* when the id has no row, else updates the loaded record.  The outcome is
\* the exception (None when it returns) and the table afterwards.
update_job_status(table, job_id, status, current_agent, progress, result, error) ==
    IF ~HasRow(table, job_id)
    THEN [raised |-> Some("Job not found"), table |-> SessionExit(table, table)]
    ELSE [raised |-> None,
          table  |-> SessionExit(table,
                        Put(table, job_id,
                            UpdatedRecord(table[job_id], status, current_agent,
                                          progress, result, error)))]

\* PostgreSQLClient.get_job: None when the id has no row, else the row.
get_job(table, job_id) ==
    IF ~HasRow(table, job_id)
    THEN None
    ELSE Some([status        |-> table[job_id].status,
               current_agent |-> table[job_id].current_agent,
               progress      |-> table[job_id].progress,
               result        |-> table[job_id].result,
               error_message |-> table[job_id].error_message])


(* ------------------- JSON values and Python built-ins ------------------ *)

\* A decoded JSON value as Python holds it: t is its type ("null", "bool",
\* "num", "str", "list", "dict"), s the text of a str, n the number (1 and 0
\* for True and False), xs the items of a list, kv the dict as a function
\* from its keys to their values.
J(t, s, n, xs, kv) == [t |-> t, s |-> s, n |-> n, xs |-> xs, kv |-> kv]

JNone == J("null", "", 0, << >>, << >>)

JBool(b) == J("bool", "", IF b THEN 1 ELSE 0, << >>, << >>)

JNum(n) == J("num", "", n, << >>, << >>)

JStr(s) == J("str", s, 0, << >>, << >>)

JList(xs) == J("list", "", 0, xs, << >>)

JDict(kv) == J("dict", "", 0, << >>, kv)

EmptyDict == JDict(<< >>)

\* isinstance(v, dict), isinstance(v, list)
IsDict(v) == v.t = "dict"

IsList(v) == v.t = "list"

\* bool(v): None, False, 0, "", [] and {} are false.
PyTruthy(v) ==
    CASE v.t = "null" -> FALSE
      [] v.t \in {"bool", "num"} -> v.n # 0
      [] v.t = "str"  -> v.s # ""
      [] v.t = "list" -> v.xs # << >>
      [] v.t = "dict" -> DOMAIN v.kv # {}

\* "a or b"
PyOr(a, b) == IF PyTruthy(a) THEN a ELSE b

\* type(v).__name__, as exception messages print it.
TypeName(v) ==
    CASE v.t = "null" -> "NoneType" [] v.t = "bool" -> "bool"
      [] v.t = "num" -> "int" [] v.t = "str" -> "str"
      [] v.t = "list" -> "list" [] v.t = "dict" -> "dict"

\* str(v); a list or dict prints its items, here only whether it has any.
PyStr(v) ==
    CASE v.t = "null" -> "None"
      [] v.t = "bool" -> IF v.n = 1 THEN "True" ELSE "False"
      [] v.t = "num"  -> ToString(v.n)
      [] v.t = "str"  -> v.s
      [] v.t = "list" -> IF v.xs = << >> THEN "[]" ELSE "[...]"
      [] v.t = "dict" -> IF DOMAIN v.kv = {} THEN "{}" ELSE "{...}"

\* d.get(key, default) on a dict d.
Get(d, key, default) == IF key \in DOMAIN d.kv THEN d.kv[key] ELSE default

\* "v in (None, False, '')": == of Python, under which 0 equals False.
InNoneFalseEmpty(v) ==
    \/ v.t = "null"
    \/ v.t \in {"bool", "num"} /\ v.n = 0
    \/ v.t = "str" /\ v.s = ""

\* The outcome of a call that may raise: the exception's message (None when
\* the call returned) and the value returned.
Ok(value) == [raised |-> None, value |-> value]

Exc(msg, value) == [raised |-> Some(msg), value |-> value]

\* "v = value" and the statements after it: the value is computed once.
Assign(value, Rest(_)) == CHOOSE result \in {Rest(v) : v \in {value}} : TRUE

\* "v = call(...)" and the statements after it: an exception the call raises
\* ends the function with that exception.
Try(outcome, Rest(_)) ==
    Assign(outcome, LAMBDA o : IF o.raised # None THEN o ELSE Rest(o.value))

\* text[a:b] for 0 <= a, b (Python slices clamp to the length).
Slice(text, a, b) ==
    SubSeq(text, a + 1, IF b < Len(text) THEN b ELSE Len(text))

\* text.strip(chars): the characters of the set are dropped at both ends.
RECURSIVE LStrip(_, _)
LStrip(text, chars) ==
    IF Len(text) > 0 /\ SubSeq(text, 1, 1) \in chars
    THEN LStrip(SubSeq(text, 2, Len(text)), chars)
    ELSE text

RECURSIVE RStrip(_, _)
RStrip(text, chars) ==
    IF Len(text) > 0 /\ SubSeq(text, Len(text), Len(text)) \in chars
    THEN RStrip(SubSeq(text, 1, Len(text) - 1), chars)
    ELSE text

StripChars(text, chars) == RStrip(LStrip(text, chars), chars)

\* str.strip()
Whitespace == {" ", "\t", "\n"}

strip(text) == StripChars(text, Whitespace)

\* The letters str.lower() and str.upper() translate.
UpperLetters == "ABCDEFGHIJKLMNOPQRSTUVWXYZ"

LowerLetters == "abcdefghijklmnopqrstuvwxyz"

\* The letter of to that stands where c stands in from; c itself when it is
\* no letter of from.
Translated(c, from, to) ==
    IF \E i \in 1 .. Len(from) : SubSeq(from, i, i) = c
    THEN SubSeq(to, CHOOSE i \in 1 .. Len(from) : SubSeq(from, i, i) = c,
                    CHOOSE i \in 1 .. Len(from) : SubSeq(from, i, i) = c)
    ELSE c

LowerChar(c) == Translated(c, UpperLetters, LowerLetters)

\* Whether the text has a capital letter; str.lower() returns a text that has
\* none as it is.
HasUpper(text) ==
    \E i \in 1..Len(text), j \in 1..Len(UpperLetters) :
        SubSeq(text, i, i) = SubSeq(UpperLetters, j, j)

\* str.lower(), letter by letter.
RECURSIVE lower(_)
lower(text) ==
    IF ~HasUpper(text) THEN text
    ELSE LowerChar(SubSeq(text, 1, 1)) \o lower(SubSeq(text, 2, Len(text)))

\* "token in text"
Contains(text, token) ==
    \E i \in 1..(Len(text) - Len(token) + 1) :
        SubSeq(text, i, i + Len(token) - 1) = token

\* str.upper(), letter by letter.
UpperChar(c) == Translated(c, LowerLetters, UpperLetters)

RECURSIVE upper(_)
upper(text) ==
    IF Len(text) = 0 THEN ""
    ELSE UpperChar(SubSeq(text, 1, 1)) \o upper(SubSeq(text, 2, Len(text)))

\* The position of the first character of text that is in chars, 0 when
\* there is none.
FirstOf(text, chars) ==
    IF \E i \in 1..Len(text) : SubSeq(text, i, i) \in chars
    THEN CHOOSE i \in 1..Len(text) :
            /\ SubSeq(text, i, i) \in chars
            /\ \A j \in 1..(i - 1) : SubSeq(text, j, j) \notin chars
    ELSE 0

\* text.split(sep) for a separator of one character: the pieces between the
\* separators, empty pieces included.
RECURSIVE SplitOn(_, _)
SplitOn(text, sep) ==
    LET i == FirstOf(text, {sep}) IN
    IF i = 0 THEN << text >>
    ELSE << SubSeq(text, 1, i - 1) >> \o SplitOn(SubSeq(text, i + 1, Len(text)), sep)

\* text.split(sep, 1): at most one cut.
SplitOnce(text, sep) ==
    LET i == FirstOf(text, {sep}) IN
    IF i = 0 THEN << text >>
    ELSE << SubSeq(text, 1, i - 1), SubSeq(text, i + 1, Len(text)) >>

\* text.split(): the words between runs of whitespace.
RECURSIVE Words(_)
Words(text) ==
    LET rest == LStrip(text, Whitespace)
        i    == FirstOf(rest, Whitespace)
    IN  IF rest = "" THEN << >>
        ELSE IF i = 0 THEN << rest >>
        ELSE << SubSeq(rest, 1, i - 1) >> \o Words(SubSeq(rest, i + 1, Len(rest)))

\* sep.join(texts)
RECURSIVE Join(_, _)
Join(texts, sep) ==
    IF texts = << >> THEN ""
    ELSE IF Len(texts) = 1 THEN texts[1]
    ELSE texts[1] \o sep \o Join(Tail(texts), sep)

\* The value of a decimal digit, and of a text of digits.
Digits == {"0", "1", "2", "3", "4", "5", "6", "7", "8", "9"}

DigitValue(c) ==
    CASE c = "0" -> 0 [] c = "1" -> 1 [] c = "2" -> 2 [] c = "3" -> 3
      [] c = "4" -> 4 [] c = "5" -> 5 [] c = "6" -> 6 [] c = "7" -> 7
      [] c = "8" -> 8 [] c = "9" -> 9

IsDigits(text) ==
    Len(text) > 0 /\ \A i \in 1..Len(text) : SubSeq(text, i, i) \in Digits

\* re.sub(r"\D", "", text): the digits of the text.
RECURSIVE DigitsOf(_)
DigitsOf(text) ==
    IF Len(text) = 0 THEN ""
    ELSE (IF SubSeq(text, 1, 1) \in Digits THEN SubSeq(text, 1, 1) ELSE "")
         \o DigitsOf(SubSeq(text, 2, Len(text)))

\* f"{n:011d}": the decimal digits, zero-padded on the left to a width of 11
\* (the sign included); a longer number is not cut.  The integer is given by
\* its decimal text, str(n): the amount involved of a SAR may have more
\* digits than an integer here holds.
RECURSIVE ZeroPad(_, _)
ZeroPad(digits, width) ==
    IF Len(digits) >= width THEN digits ELSE ZeroPad("0" \o digits, width)

Format011dOf(decimal) ==
    IF SubSeq(decimal, 1, 1) # "-" THEN ZeroPad(decimal, 11)
    ELSE "-" \o ZeroPad(SubSeq(decimal, 2, Len(decimal)), 10)

\* f"{x:,.2f}" for a whole amount: the digits in groups of three and ".00".
RECURSIVE Grouped(_)
Grouped(digits) ==
    IF Len(digits) <= 3 THEN digits
    ELSE Grouped(SubSeq(digits, 1, Len(digits) - 3)) \o ","
            \o SubSeq(digits, Len(digits) - 2, Len(digits))

FormatMoney(n) ==
    (IF n >= 0 THEN Grouped(ToString(n)) ELSE "-" \o Grouped(ToString(0 - n))) \o ".00"

\* The same format of a whole amount given by its decimal text.
FormatMoneyOf(decimal) ==
    (IF SubSeq(decimal, 1, 1) # "-" THEN Grouped(decimal)
     ELSE "-" \o Grouped(SubSeq(decimal, 2, Len(decimal)))) \o ".00"

RECURSIVE TextValue(_)
TextValue(text) ==
    IF Len(text) = 0 THEN 0
    ELSE 10 * TextValue(SubSeq(text, 1, Len(text) - 1))
             + DigitValue(SubSeq(text, Len(text), Len(text)))

\* float(v): amounts are whole dollars here, and the texts float() accepts
\* are the texts of digits, blanks around them allowed.
PyFloat(v) ==
    CASE v.t \in {"bool", "num"} -> Ok(v.n)
      [] v.t = "str" ->
            IF IsDigits(strip(v.s)) THEN Ok(TextValue(strip(v.s)))
            ELSE Exc("could not convert string to float: '" \o v.s \o "'", 0)
      [] OTHER ->
            Exc("float() argument must be a string or a real number, not '"
                    \o TypeName(v) \o "'", 0)

\* The digits of a whole number without its leading zeros.
RECURSIVE StripZeros(_)
StripZeros(digits) ==
    IF Len(digits) > 1 /\ SubSeq(digits, 1, 1) = "0"
    THEN StripZeros(SubSeq(digits, 2, Len(digits)))
    ELSE digits

\* int(float(v)) as its decimal text, for the amount involved of a SAR
\* (lines 190-191 and 370-372): what float() accepts is what PyFloat accepts,
\* and an amount of up to fifteen digits is kept exactly by a float.
PyFloatDecimal(v) ==
    CASE v.t \in {"bool", "num"} -> Ok(ToString(v.n))
      [] v.t = "str" ->
            IF IsDigits(strip(v.s)) THEN Ok(StripZeros(strip(v.s)))
            ELSE Exc("could not convert string to float: '" \o v.s \o "'", "0")
      [] OTHER ->
            Exc("float() argument must be a string or a real number, not '"
                    \o TypeName(v) \o "'", "0")

(* ---------------- normalizer (field_mapper.py, lines 9-51) ------------- *)

TRUE_STRINGS == {"true", "yes", "y", "1", "t"}

FALSE_STRINGS == {"false", "no", "n", "0", "f"}

NULL_STRINGS == {"null", "none", "nil", "na", "n/a"}

\* Mutant of normalize_scalar: the folding tables are looked up with the
\* text as given, not with the stripped text (lowered = value.lower()).
normalize_scalar_unstripped(value) ==
    IF value.t # "str" THEN value
    ELSE LET cleaned == strip(value.s)
             lowered == lower(value.s)
         IN  IF lowered \in NULL_STRINGS THEN JNone
             ELSE IF lowered \in TRUE_STRINGS THEN JBool(TRUE)
             ELSE IF lowered \in FALSE_STRINGS THEN JBool(FALSE)
             ELSE JStr(cleaned)

\* _normalize_scalar
normalize_scalar(value) ==
    IF value.t # "str" THEN value
    ELSE LET cleaned == strip(value.s)
             lowered == lower(cleaned)
         IN  IF lowered \in NULL_STRINGS THEN JNone
             ELSE IF lowered \in TRUE_STRINGS THEN JBool(TRUE)
             ELSE IF lowered \in FALSE_STRINGS THEN JBool(FALSE)
             ELSE JStr(cleaned)

\* _normalize_obj
RECURSIVE normalize_obj(_)
normalize_obj(value) ==
    IF IsDict(value)
    THEN JDict([key \in DOMAIN value.kv |-> normalize_obj(value.kv[key])])
    ELSE IF IsList(value)
    THEN JList([i \in DOMAIN value.xs |-> normalize_obj(value.xs[i])])
    ELSE normalize_scalar(value)

\* The first item of a list that is a dict, the empty dict when it has none
\* (the loop of lines 48-50 and the return of line 51).
RECURSIVE FirstDict(_)
FirstDict(items) ==
    IF items = << >> THEN EmptyDict
    ELSE IF IsDict(Head(items)) THEN Head(items)
    ELSE FirstDict(Tail(items))

\* Mutant of normalize_case_data: a list gives its first item, whatever the
\* item is.
normalize_case_data_first_item(case_data) ==
    LET normalized == normalize_obj(case_data) IN
    IF IsDict(normalized) THEN normalized
    ELSE IF IsList(normalized) /\ normalized.xs # << >> THEN normalized.xs[1]
    ELSE EmptyDict

\* normalize_case_data
normalize_case_data(case_data) ==
    LET normalized == normalize_obj(case_data) IN
    IF IsDict(normalized) THEN normalized
    ELSE IF IsList(normalized) THEN FirstDict(normalized.xs)
    ELSE EmptyDict


(* --------------- classifier (field_mapper.py, lines 543-642) ----------- *)

\* _to_list (module level): a list is flattened, any other value is
\* normalized and kept as its str() unless it is None, False (or 0) or "".
RECURSIVE to_list(_)
to_list(value) ==
    IF IsList(value)
    THEN (IF value.xs = << >> THEN << >>
          ELSE to_list(Head(value.xs)) \o to_list(JList(Tail(value.xs))))
    ELSE LET normalized == normalize_obj(value) IN
         IF InNoneFalseEmpty(normalized) THEN << >> ELSE << PyStr(normalized) >>

\* (tx.get(key, "") or "").strip().lower(): a true value that is no str has
\* no strip.
TagText(tx, key) ==
    LET v == PyOr(Get(tx, key, JStr("")), JStr("")) IN
    IF v.t = "str" THEN Ok(lower(strip(v.s)))
    ELSE Exc("'" \o TypeName(v) \o "' object has no attribute 'strip'", "")

\* _is_cash_transaction
CashTokens == {"cash", "currency", "cash_deposit"}

is_cash_transaction(tx) ==
    LET instrument == TagText(tx, "instrument_type")
        product    == TagText(tx, "product_type")
        tx_type    == TagText(tx, "type")
    IN  IF instrument.raised # None THEN Exc(instrument.raised[1], FALSE)
        ELSE IF product.raised # None THEN Exc(product.raised[1], FALSE)
        ELSE IF tx_type.raised # None THEN Exc(tx_type.raised[1], FALSE)
        ELSE LET text == instrument.value \o " " \o product.value \o " " \o tx_type.value
             IN  Ok(\E token \in CashTokens : Contains(text, token))

\* float(tx.get("amount_usd", 0) or 0)
CashAmount(tx) == PyFloat(PyOr(Get(tx, "amount_usd", JNum(0)), JNum(0)))

\* The loop of calculate_total_cash_amount over the items, first to last; the
\* first exception ends it.
RECURSIVE SumCash(_)
SumCash(txs) ==
    IF txs = << >> THEN Ok(0)
    ELSE IF ~IsDict(Head(txs)) THEN SumCash(Tail(txs))
    ELSE LET cash == is_cash_transaction(Head(txs)) IN
         IF cash.raised # None THEN Exc(cash.raised[1], 0)
         ELSE IF ~cash.value THEN SumCash(Tail(txs))
         ELSE LET amount == CashAmount(Head(txs)) IN
              IF amount.raised # None THEN amount
              ELSE LET rest == SumCash(Tail(txs)) IN
                   IF rest.raised # None THEN rest
                   ELSE Ok(amount.value + rest.value)

\* calculate_total_cash_amount: "transactions" is iterated whatever it is: a
\* list gives its items, a dict its keys and a str its characters (no dict
\* among them), any other value raises TypeError.
calculate_total_cash_amount(case_data) ==
    LET normalized_case == normalize_case_data(case_data)
        txs == Get(normalized_case, "transactions", JList(<< >>))
    IN  IF IsList(txs) THEN SumCash(txs.xs)
        ELSE IF txs.t \in {"dict", "str"} THEN Ok(0)
        ELSE Exc("'" \o TypeName(txs) \o "' object is not iterable", 0)

\* _text_indicates_suspicion: the threshold-language tokens are looked up
\* only after the suspicious tokens, and both outcomes of that lookup are
\* False.
SuspiciousTokens ==
    {"structur", "fraud", "launder", "suspicious", "terror", "sanction",
     "unusual", "no apparent", "kiting", "embezz"}

NonSarTokens == {"exceeds $10,000", "exceeds 10,000", "10k", "threshold"}

text_indicates_suspicion(text) ==
    LET lowered == lower(PyStr(PyOr(normalize_scalar(JStr(text)), JStr("")))) IN
    IF lowered = "" THEN FALSE
    ELSE IF \E token \in SuspiciousTokens : Contains(lowered, token) THEN TRUE
    ELSE IF \E token \in NonSarTokens : Contains(lowered, token) THEN FALSE
    ELSE FALSE

\* has_suspicious_activity: .get on a section that is present and no dict
\* raises AttributeError.
SuspiciousFields ==
    {"29_Structuring", "30_TerroristFinancing", "31_Fraud", "33_MoneyLaundering",
     "35_OtherSuspiciousActivities", "38_MortgageFraud"}

NoGet(v) == "'" \o TypeName(v) \o "' object has no attribute 'get'"

AnyIndicates(texts) == \E i \in DOMAIN texts : text_indicates_suspicion(texts[i])

has_suspicious_activity(case_data) ==
    LET normalized_case == normalize_case_data(case_data)
        activity == Get(normalized_case, "SuspiciousActivityInformation", EmptyDict)
        alert    == Get(normalized_case, "alert", EmptyDict)
    IN  IF ~IsDict(activity) THEN Exc(NoGet(activity), FALSE)
        ELSE IF \E name \in SuspiciousFields :
                    to_list(Get(activity, name, JNone)) # << >>
        THEN Ok(TRUE)
        ELSE IF ~IsDict(alert) THEN Exc(NoGet(alert), FALSE)
        ELSE IF AnyIndicates(to_list(Get(alert, "red_flags", JNone))) THEN Ok(TRUE)
        ELSE IF AnyIndicates(to_list(Get(alert, "trigger_reasons", JNone)))
        THEN Ok(TRUE)
        ELSE Ok(FALSE)

\* determine_report_types: the exception of the cash total or of the
\* suspicion test, or the list.
CtrThreshold == 10000

\* Mutant of determine_report_types: the threshold is exclusive.
determine_report_types_exclusive(case_data) ==
    LET total      == calculate_total_cash_amount(case_data)
        suspicious == has_suspicious_activity(case_data)
    IN  IF total.raised # None THEN Exc(total.raised[1], << >>)
        ELSE IF suspicious.raised # None THEN Exc(suspicious.raised[1], << >>)
        ELSE Ok((IF total.value > CtrThreshold THEN << "CTR" >> ELSE << >>)
                \o (IF suspicious.value THEN << "SAR" >> ELSE << >>))

determine_report_types(case_data) ==
    LET total      == calculate_total_cash_amount(case_data)
        suspicious == has_suspicious_activity(case_data)
    IN  IF total.raised # None THEN Exc(total.raised[1], << >>)
        ELSE IF suspicious.raised # None THEN Exc(suspicious.raised[1], << >>)
        ELSE Ok((IF total.value >= CtrThreshold THEN << "CTR" >> ELSE << >>)
                \o (IF suspicious.value THEN << "SAR" >> ELSE << >>))

(* ------------- field maps (field_mapper.py, lines 54-540) -------------- *)

\* A dict under construction (f, out, fields): the set of its items, one per
\* key.  Keys are equal as Python has them equal (True and 1 are one key).
Item(key, value) == [key |-> key, value |-> value]

SameKey(a, b) ==
    \/ a = b
    \/ a.t \in {"bool", "num"} /\ b.t \in {"bool", "num"} /\ a.n = b.n

\* f[key] = value
SetItem(f, key, value) ==
    IF \E e \in f : SameKey(e.key, key)
    THEN {IF SameKey(e.key, key) THEN Item(e.key, value) ELSE e : e \in f}
    ELSE f \cup {Item(key, value)}

\* f[name] = value for a literal field id.
Set(f, name, value) == SetItem(f, JStr(name), value)

\* The items set one after the other, first to last.
RECURSIVE SetAll(_, _)
SetAll(f, items) ==
    IF items = << >> THEN f
    ELSE SetAll(SetItem(f, Head(items).key, Head(items).value), Tail(items))

\* fields.update(g)
Update(f, g) ==
    {e \in f : \A e2 \in g : ~SameKey(e2.key, e.key)}
        \cup {IF \E e \in f : SameKey(e.key, e2.key)
              THEN Item((CHOOSE e \in f : SameKey(e.key, e2.key)).key, e2.value)
              ELSE e2 : e2 \in g}

\* A list or dict is not hashable: it is no member of a set and no dict key.
Hashable(v) == v.t \notin {"list", "dict"}

Unhashable(v) == "unhashable type: '" \o TypeName(v) \o "'"

\* A method of str called on a value that is no str.
NoAttribute(v, name) ==
    "'" \o TypeName(v) \o "' object has no attribute '" \o name \o "'"

\* "x if isinstance(x, dict) else {}" of the mappers' constructors.
DictOrEmpty(v) == IF IsDict(v) THEN v ELSE EmptyDict

\* The attributes the constructors (lines 79-92 and 439-454) set from the
\* normalized case.
Inst(case) == DictOrEmpty(Get(case, "institution", EmptyDict))

Subject(case) == DictOrEmpty(Get(case, "subject", EmptyDict))

Activity(case) == DictOrEmpty(Get(case, "SuspiciousActivityInformation", EmptyDict))

Signals(case) == DictOrEmpty(Get(case, "external_signals", EmptyDict))

LawEnforcement(case) ==
    DictOrEmpty(Get(Signals(case), "law_enforcement_contacted", EmptyDict))

Txns(case) ==
    LET txns == Get(case, "transactions", JList(<< >>)) IN
    IF IsList(txns) THEN SelectSeq(txns.xs, IsDict) ELSE << >>

\* (value or "")[:2]
FirstTwo(value) ==
    LET v == PyOr(value, JStr("")) IN
    CASE v.t = "str"  -> Ok(JStr(Slice(v.s, 0, 2)))
      [] v.t = "list" -> Ok(JList(SubSeq(v.xs, 1, IF Len(v.xs) < 2 THEN Len(v.xs) ELSE 2)))
      [] v.t = "dict" -> Exc("unhashable type: 'slice'", JNone)
      [] OTHER        -> Exc("'" \o TypeName(v) \o "' object is not subscriptable", JNone)

\* f"{city}, {state}".strip(", ")
CityState(city, state) ==
    JStr(StripChars(PyStr(city) \o ", " \o PyStr(state), {",", " "}))

\* The values of origin_account and destination_account, transaction by
\* transaction.
RECURSIVE AccountValues(_)
AccountValues(txns) ==
    IF txns = << >> THEN << >>
    ELSE << Get(Head(txns), "origin_account", JStr("")),
            Get(Head(txns), "destination_account", JStr("")) >>
         \o AccountValues(Tail(txns))

\* The loop of _collect_accounts (and of CTRFieldMapper._map_transactions):
\* the true values in order of first occurrence; "acct not in seen" hashes
\* the value.
RECURSIVE DistinctAccounts(_, _)
DistinctAccounts(values, out) ==
    IF values = << >> THEN Ok(out)
    ELSE LET acct == Head(values) IN
         IF ~PyTruthy(acct) THEN DistinctAccounts(Tail(values), out)
         ELSE IF ~Hashable(acct) THEN Exc(Unhashable(acct), out)
         ELSE IF \E i \in DOMAIN out : SameKey(out[i], acct)
         THEN DistinctAccounts(Tail(values), out)
         ELSE DistinctAccounts(Tail(values), Append(out, acct))

\* SARFieldMapper._collect_accounts
collect_accounts(case) == DistinctAccounts(AccountValues(Txns(case)), << >>)

\* SARFieldMapper.REGULATOR_MAP
REGULATOR_MAP(name) ==
    CASE name \in {"FRB", "Federal Reserve", "FEDERAL RESERVE"} -> "/0"
      [] name = "FDIC" -> "/1" [] name = "NCUA" -> "/2"
      [] name = "OCC" -> "/3" [] name = "OTS" -> "/4"

RegulatorNames ==
    {"FRB", "Federal Reserve", "FEDERAL RESERVE", "FDIC", "NCUA", "OCC", "OTS"}

\* The items for the first four accounts, lines 128-132.
AccountItems(accounts) ==
    LET acct_fields == << "item14a", "item14b", "item14c", "item14d" >>
        n == IF Len(accounts) < 4 THEN Len(accounts) ELSE 4
    IN  [i \in 1..(2 * n) |->
            IF i % 2 = 1 THEN Item(JStr(acct_fields[(i + 1) \div 2]), accounts[(i + 1) \div 2])
            ELSE Item(JStr(acct_fields[i \div 2] \o "-1"), JStr("/Yes"))]

\* SARFieldMapper._map_institution
sar_map_institution(case) ==
    LET inst  == Inst(case)
        state == FirstTwo(Get(inst, "branch_state", JStr("")))
        city  == PyOr(Get(inst, "branch_city", JStr("")), JStr(""))
        reg   == PyOr(Get(inst, "primary_federal_regulator", JStr("")), JStr(""))
        regulator == strip(reg.s)
        accounts  == collect_accounts(case)
        f1 == SetAll({}, << Item(JStr("item2"), Get(inst, "name", JStr(""))),
                           Item(JStr("item6"), Get(inst, "branch_city", JStr(""))),
                           Item(JStr("item7"), state.value),
                           Item(JStr("item9"), CityState(city, state.value)),
                           Item(JStr("item10"), city),
                           Item(JStr("item11-1"), state.value) >>)
        f2 == IF regulator \in RegulatorNames
              THEN Set(f1, "item5", JStr(REGULATOR_MAP(regulator)))
              ELSE IF upper(regulator) \in RegulatorNames
              THEN Set(f1, "item5", JStr(REGULATOR_MAP(upper(regulator))))
              ELSE f1
    IN  IF state.raised # None THEN Exc(state.raised[1], {})
        ELSE IF reg.t # "str" THEN Exc(NoAttribute(reg, "strip"), {})
        ELSE IF accounts.raised # None THEN Exc(accounts.raised[1], {})
        ELSE Ok(SetAll(f2, AccountItems(accounts.value)))

\* SARFieldMapper._split_individual_name, applied to a str.
split_individual_name(name) ==
    LET parts == Words(name) IN
    IF parts = << >> THEN [first |-> "", middle |-> "", last |-> ""]
    ELSE IF Len(parts) = 1 THEN [first |-> parts[1], middle |-> "", last |-> parts[1]]
    ELSE IF Len(parts) = 2 THEN [first |-> parts[1], middle |-> "", last |-> parts[2]]
    ELSE [first  |-> parts[1],
          middle |-> Join(SubSeq(parts, 2, Len(parts) - 1), " "),
          last   |-> parts[Len(parts)]]

\* SARFieldMapper._map_suspect
sar_map_suspect(case) ==
    LET subject   == Subject(case)
        full_name == PyOr(Get(subject, "name", JStr("")), JStr(""))
        type      == PyOr(Get(subject, "type", JStr("")), JStr(""))
        parsed    == split_individual_name(full_name.s)
        rest == << Item(JStr("item23"), Get(subject, "country", JStr("US"))),
                   Item(JStr("item26"), Get(subject, "industry_or_occupation", JStr(""))),
                   Item(JStr("item28"), JStr("/1")),
                   Item(JStr("item30"), JStr("/6")),
                   Item(JStr("item31"), JStr("/1")) >>
    IN  IF type.t # "str" THEN Exc(NoAttribute(type, "lower"), {})
        ELSE IF lower(type.s) = "individual"
        THEN (IF full_name.t # "str" THEN Exc(NoAttribute(full_name, "split"), {})
              ELSE Ok(SetAll({}, << Item(JStr("item15"), JStr(parsed.last)),
                                   Item(JStr("item16"), JStr(parsed.first)),
                                   Item(JStr("item17"), JStr(parsed.middle)) >> \o rest)))
        ELSE Ok(SetAll({}, << Item(JStr("item15"), full_name) >> \o rest))


\* SARFieldMapper._to_list: None gives [], a list its items normalized and
\* flattened without None, False (or 0) and "", any other value itself on
\* the same terms, each as its str().
RECURSIVE sar_to_list(_)
sar_to_list(value) ==
    IF value.t = "null" THEN << >>
    ELSE IF IsList(value)
    THEN (IF value.xs = << >> THEN << >>
          ELSE LET normalized == normalize_obj(Head(value.xs))
                   rest       == sar_to_list(JList(Tail(value.xs)))
               IN  IF InNoneFalseEmpty(normalized) THEN rest
                   ELSE IF IsList(normalized) THEN sar_to_list(normalized) \o rest
                   ELSE << PyStr(normalized) >> \o rest)
    ELSE LET normalized == normalize_obj(value) IN
         IF InNoneFalseEmpty(normalized) THEN << >> ELSE << PyStr(normalized) >>

\* SARFieldMapper._has_items
has_items(value) ==
    IF value.t \in {"bool", "num"} THEN value.n # 0
    ELSE Len(sar_to_list(value)) > 0

\* SARFieldMapper._contains_case_insensitive
contains_case_insensitive(value, needle) ==
    \E i \in DOMAIN sar_to_list(value) :
        Contains(lower(sar_to_list(value)[i]), lower(needle))

\* SARFieldMapper._apply_mmddyyyy: the items it sets on out, or the exception
\* of strip on a true value that is no str.
apply_mmddyyyy(value, field_ids, out) ==
    LET v     == PyOr(value, JStr(""))
        text  == strip(v.s)
        parts == SplitOn(text, "/")
    IN  IF v.t # "str" THEN Exc(NoAttribute(v, "strip"), out)
        ELSE IF text = "" \/ Len(parts) # 3 THEN Ok(out)
        ELSE Ok(SetAll(out, << Item(JStr(field_ids[1]), JStr(parts[1])),
                               Item(JStr(field_ids[2]), JStr(parts[2])),
                               Item(JStr(field_ids[3]), JStr(parts[3])) >>))

\* Lines 192-207: one item per character of the first eleven of the padded
\* amount.
AmountItems(amount_digits) ==
    [i \in 1..11 |-> Item(JStr("item34-" \o ToString(i)),
                          JStr(SubSeq(amount_digits, i, i)))]

\* Lines 209-226: the indicator flags, in the order they are set.
ActivityFlags(activity) ==
    LET other == Get(activity, "35_OtherSuspiciousActivities", JList(<< >>)) IN
       (IF has_items(Get(activity, "29_Structuring", JNone))
        THEN << Item(JStr("item35a"), JStr("/Yes")) >> ELSE << >>)
    \o (IF has_items(Get(activity, "30_TerroristFinancing", JNone))
        THEN << Item(JStr("item35t"), JStr("/Yes")) >> ELSE << >>)
    \o (IF contains_case_insensitive(Get(activity, "31_Fraud", JNone), "wire")
        THEN << Item(JStr("item35r"), JStr("/Yes")) >> ELSE << >>)
    \o (IF has_items(Get(activity, "33_MoneyLaundering", JNone))
        THEN << Item(JStr("item35a"), JStr("/Yes")) >> ELSE << >>)
    \o (IF has_items(Get(activity, "38_MortgageFraud", JNone))
        THEN << Item(JStr("item35p"), JStr("/Yes")) >> ELSE << >>)
    \o (IF has_items(other)
        THEN << Item(JStr("item35s"), JStr("/Yes")),
                Item(JStr("item35s-1"),
                     JStr(Slice(Join(sar_to_list(other), "; "), 0, 100))) >>
        ELSE << >>)
    \o << Item(JStr("item38"), JStr("/1")), Item(JStr("item39"), JStr("/1")) >>

\* SARFieldMapper._map_suspicious_activity
sar_map_suspicious_activity(case) ==
    LET activity    == Activity(case)
        date_range  == Get(activity, "27_DateOrDateRange", EmptyDict)
        from        == apply_mmddyyyy(Get(date_range, "from", JStr("")),
                                      << "item33-1", "item33-2", "item33-3" >>, {})
        to          == apply_mmddyyyy(Get(date_range, "to", JStr("")),
                                      << "item33-4", "item33-5", "item33-6" >>, from.value)
        amount_info == Get(activity, "26_AmountInvolved", EmptyDict)
        amount_val  == PyFloatDecimal(PyOr(Get(amount_info, "amount_usd", JNum(0)),
                                           JNum(0)))
    IN  IF ~IsDict(date_range) THEN Exc(NoGet(date_range), {})
        ELSE IF from.raised # None THEN Exc(from.raised[1], {})
        ELSE IF to.raised # None THEN Exc(to.raised[1], {})
        ELSE IF ~IsDict(amount_info) THEN Exc(NoGet(amount_info), {})
        ELSE IF amount_val.raised # None THEN Exc(amount_val.raised[1], {})
        ELSE Ok(SetAll(to.value,
                       AmountItems(Format011dOf(amount_val.value)) \o ActivityFlags(activity)))

\* SARFieldMapper._as_bool
as_bool(value) == PyTruthy(normalize_scalar(value))

\* SARFieldMapper.LE_AGENCY_MAP
LE_AGENCY_MAP(agency) ==
    CASE agency = "DEA" -> "item40a" [] agency = "FBI" -> "item40b"
      [] agency = "IRS" -> "item40c" [] agency = "Postal Inspection" -> "item40d"
      [] agency = "Secret Service" -> "item40e" [] agency = "U.S. Customs" -> "item40f"
      [] agency = "Other Federal" -> "item40g" [] agency = "State" -> "item40h"
      [] agency = "Local" -> "item40i"

AgencyNames ==
    {"DEA", "FBI", "IRS", "Postal Inspection", "Secret Service", "U.S. Customs",
     "Other Federal", "State", "Local"}

\* Lines 304-309 and 323-328: the digits of the phone, without a leading 1
\* when there are eleven; the area code and the number when ten or more
\* remain, else nothing.  re.sub raises on a value that is no str.
PhoneParts(phone) ==
    LET all    == DigitsOf(phone.s)
        digits == IF Len(all) = 11 /\ SubSeq(all, 1, 1) = "1"
                  THEN SubSeq(all, 2, 11) ELSE all
    IN  IF phone.t # "str"
        THEN Exc("expected string or bytes-like object, got '" \o TypeName(phone) \o "'",
                 << >>)
        ELSE IF Len(digits) >= 10
        THEN Ok(<< Slice(digits, 0, 3), Slice(digits, 3, 10) >>)
        ELSE Ok(<< >>)

\* SARFieldMapper._map_law_enforcement
sar_map_law_enforcement(case) ==
    LET le           == LawEnforcement(case)
        agency       == PyOr(Get(le, "agency", JNone), JStr(""))
        contact_name == PyOr(Get(le, "contact_name", JNone), JStr(""))
        phone        == PyOr(Get(le, "phone", JStr("")), JStr(""))
        matched      == agency.t = "str" /\ agency.s \in AgencyNames
        parts        == PhoneParts(phone)
        f1 == IF matched THEN Set({}, LE_AGENCY_MAP(agency.s), JStr("/Yes"))
              ELSE IF PyTruthy(agency)
              THEN SetAll({}, << Item(JStr("item40j"), JStr("/Yes")),
                                 Item(JStr("item40j-1"),
                                      IF agency.t = "str" THEN JStr(Slice(agency.s, 0, 80))
                                      ELSE agency) >>)
              ELSE {}
        f2 == IF PyTruthy(contact_name) THEN Set(f1, "item41", contact_name) ELSE f1
    IN  IF ~as_bool(Get(le, "contacted", JBool(FALSE))) THEN Ok({})
        ELSE IF ~Hashable(agency) THEN Exc(Unhashable(agency), {})
        ELSE IF ~matched /\ PyTruthy(agency) /\ agency.t # "str"
        THEN Exc("'" \o TypeName(agency) \o "' object is not subscriptable", {})
        ELSE IF parts.raised # None THEN Exc(parts.raised[1], {})
        ELSE IF parts.value = << >> THEN Ok(f2)
        ELSE Ok(SetAll(f2, << Item(JStr("item42-1"), JStr(parts.value[1])),
                              Item(JStr("item42-2"), JStr(parts.value[2])) >>))

\* datetime.now() as the mappers print it: the day of the run, its month,
\* day and year in digits.
DateOf(day) ==
    [mm |-> "11", dd |-> ZeroPad(ToString(day), 2), yyyy |-> "2026"]

\* Mutant of sar_map_contact: the day of the run is also written into the
\* title, item48.
sar_map_contact_dated_title(case, now) ==
    Ok({ Item(JStr("item48"), JStr("Compliance Officer " \o DateOf(now).dd)),
         Item(JStr("item50-1"), JStr(DateOf(now).mm)),
         Item(JStr("item50-2"), JStr(DateOf(now).dd)),
         Item(JStr("item50-3"), JStr(DateOf(now).yyyy)) })

\* SARFieldMapper._map_contact; now is the day datetime.now() gives.
sar_map_contact(case, now) ==
    LET inst         == Inst(case)
        contact_name == PyOr(Get(inst, "contact_officer", JStr("")), JStr(""))
        names        == SplitOnce(contact_name.s, " ")
        phone        == PyOr(Get(inst, "contact_phone", JStr("")), JStr(""))
        parts        == PhoneParts(phone)
        f1 == IF PyTruthy(contact_name)
              THEN SetAll({}, << Item(JStr("item46"), JStr(names[1])),
                                 Item(JStr("item45"), JStr(names[Len(names)])) >>)
              ELSE {}
        f2 == Set(f1, "item48", JStr("Compliance Officer"))
        f3 == IF parts.value = << >> THEN f2
              ELSE SetAll(f2, << Item(JStr("item49-1"), JStr(parts.value[1])),
                                 Item(JStr("item49-2"), JStr(parts.value[2])) >>)
    IN  IF PyTruthy(contact_name) /\ contact_name.t # "str"
        THEN Exc(NoAttribute(contact_name, "split"), {})
        ELSE IF parts.raised # None THEN Exc(parts.raised[1], {})
        ELSE Ok(SetAll(f3, << Item(JStr("item50-1"), JStr(DateOf(now).mm)),
                              Item(JStr("item50-2"), JStr(DateOf(now).dd)),
                              Item(JStr("item50-3"), JStr(DateOf(now).yyyy)) >>))


\* ", ".join(values) of lines 355 and 511: a str joins its characters, a list its
\* items when all are str, a number is no iterable.  (A dict joins its keys;
\* cases carry no dict here.)
CommaJoin(prior) ==
    CASE prior.t = "str" ->
            Ok(Join([i \in 1..Len(prior.s) |-> SubSeq(prior.s, i, i)], ", "))
      [] prior.t = "list" ->
            IF \A i \in DOMAIN prior.xs : prior.xs[i].t = "str"
            THEN Ok(Join([i \in DOMAIN prior.xs |-> prior.xs[i].s], ", "))
            ELSE LET i == CHOOSE i \in DOMAIN prior.xs :
                              /\ prior.xs[i].t # "str"
                              /\ \A j \in 1..(i - 1) : prior.xs[j].t = "str"
                 IN  Exc("sequence item " \o ToString(i - 1) \o ": expected str instance, "
                            \o TypeName(prior.xs[i]) \o " found", "")
      [] OTHER -> Exc("can only join an iterable", "")

\* Lines 376-388: one line per transaction, or the exception of float().
RECURSIVE TxLines(_)
TxLines(txns) ==
    IF txns = << >> THEN Ok(<< >>)
    ELSE Assign(Head(txns), LAMBDA tx :
         Try(PyFloat(PyOr(Get(tx, "amount_usd", JNum(0)), JNum(0))), LAMBDA usd :
         Assign(Get(tx, "location", JStr("")), LAMBDA loc :
         Assign(Get(tx, "notes", JStr("")), LAMBDA note :
         Try(TxLines(Tail(txns)), LAMBDA rest :
         Ok(<< "  " \o PyStr(Get(tx, "timestamp", JStr(""))) \o ": $"
               \o FormatMoney(usd) \o " from "
               \o PyStr(Get(tx, "origin_account", JStr(""))) \o " to "
               \o PyStr(Get(tx, "destination_account", JStr("")))
               \o (IF PyTruthy(loc) THEN " | " \o PyStr(loc) ELSE "")
               \o (IF PyTruthy(note) THEN " | " \o PyStr(note) ELSE "") >>
            \o rest))))))

\* Lines 390-405: the blocks of the populated categories that have one.
CategoryBlock(activity, name, title) ==
    Assign(Get(activity, name, JNone), LAMBDA value :
    IF has_items(value) THEN << title \o Join(sar_to_list(value), "; ") >> ELSE << >>)

CategoryBlocks(activity) ==
    CategoryBlock(activity, "29_Structuring", "STRUCTURING: ")
    \o CategoryBlock(activity, "33_MoneyLaundering", "MONEY LAUNDERING INDICATORS: ")
    \o CategoryBlock(activity, "31_Fraud", "FRAUD: ")
    \o CategoryBlock(activity, "35_OtherSuspiciousActivities", "OTHER SUSPICIOUS ACTIVITY: ")

NarrativeLimit == 4000

\* A call of .get on a section: AttributeError when it is no dict.
GetOf(section) == IF IsDict(section) THEN Ok(section) ELSE Exc(NoGet(section), section)

\* Lines 341-351: the subject line.
SubjectLine(subject) ==
    Assign(Get(subject, "industry_or_occupation", JStr("")), LAMBDA occ :
    Assign(Get(subject, "country", JStr("")), LAMBDA country :
    "SUBJECT: " \o PyStr(Get(subject, "name", JStr("Unknown")))
        \o (IF PyTruthy(occ) THEN ", " \o PyStr(occ) ELSE "")
        \o (IF PyTruthy(country) THEN " (" \o PyStr(country) \o ")" ELSE "")))

\* Lines 357-361
PeriodBlock(date_range) ==
    IF PyTruthy(Get(date_range, "from", JNone)) /\ PyTruthy(Get(date_range, "to", JNone))
    THEN << "ACTIVITY PERIOD: " \o PyStr(date_range.kv["from"])
            \o " through " \o PyStr(date_range.kv["to"]) >>
    ELSE << >>

\* A block of items joined with "; ", when there are any.
ItemsBlock(title, items) ==
    IF items # << >> THEN << title \o Join(items, "; ") >> ELSE << >>

\* SARFieldMapper._map_narrative
sar_map_narrative(case) ==
    Assign(normalize_scalar(Get(case, "narrative", JNone)), LAMBDA provided_narrative :
    IF provided_narrative.t = "str" /\ provided_narrative.s # ""
    THEN Ok(Set({}, "item51", JStr(Slice(provided_narrative.s, 0, NarrativeLimit))))
    ELSE
    Assign(Subject(case), LAMBDA subject :
    Assign(Activity(case), LAMBDA activity :
    Assign(Txns(case), LAMBDA txns :
    Assign(Get(subject, "prior_sars", JList(<< >>)), LAMBDA prior :
    Try(IF PyTruthy(prior) THEN CommaJoin(prior) ELSE Ok(""), LAMBDA joined :
    Try(GetOf(Get(activity, "27_DateOrDateRange", EmptyDict)), LAMBDA date_range :
    Try(GetOf(Get(case, "alert", EmptyDict)), LAMBDA alert :
    Assign(sar_to_list(Get(alert, "red_flags", JNone))
               \o sar_to_list(Get(alert, "trigger_reasons", JNone)), LAMBDA flags :
    Try(GetOf(Get(activity, "26_AmountInvolved", EmptyDict)), LAMBDA amount_info :
    Assign(Get(amount_info, "amount_usd", JNum(0)), LAMBDA amount :
    Try(IF PyTruthy(amount) THEN PyFloatDecimal(amount) ELSE Ok("0"), LAMBDA total :
    Try(TxLines(txns), LAMBDA tx_lines :
    Try(GetOf(Get(case, "data_quality", EmptyDict)), LAMBDA data_quality :
    Assign(Get(data_quality, "notes", JStr("")), LAMBDA dq_notes :
    Assign(sar_to_list(Get(Signals(case), "adverse_media", JNone)), LAMBDA media :
    Assign(<< SubjectLine(subject) >>
           \o (IF PyTruthy(prior) THEN << "PRIOR SARS: " \o joined >> ELSE << >>)
           \o PeriodBlock(date_range)
           \o ItemsBlock("RED FLAGS DETECTED: ", flags)
           \o (IF PyTruthy(amount)
               THEN << "TOTAL AMOUNT INVOLVED: $" \o FormatMoneyOf(total) >> ELSE << >>)
           \o (IF txns # << >>
               THEN << "TRANSACTIONS (" \o ToString(Len(txns)) \o " total):" >> \o tx_lines
               ELSE << >>)
           \o CategoryBlocks(activity)
           \o (IF PyTruthy(dq_notes) THEN << "NOTES: " \o PyStr(dq_notes) >> ELSE << >>)
           \o ItemsBlock("ADVERSE MEDIA: ", media), LAMBDA blocks :
    Ok(Set({}, "item51",
           JStr(Slice(Join(blocks, "\n\n"), 0, NarrativeLimit)))))))))))))))))))))

\* The comprehension that closes both map_all_fields: str(value) for the
\* values that are neither None nor "" ("!=" of Python: no number equals "").
Stringified(fields) ==
    {Item(e.key, JStr(PyStr(e.value))) :
        e \in {e \in fields : e.value.t # "null" /\ e.value # JStr("")}}

\* SARFieldMapper(case_data).map_all_fields(), run on the day now: the
\* exception it ends with, or the field map.
sar_map_all_fields(case_data, now) ==
    Assign(normalize_case_data(case_data), LAMBDA case :
    Try(sar_map_institution(case), LAMBDA institution :
    Try(sar_map_suspect(case), LAMBDA suspect :
    Try(sar_map_suspicious_activity(case), LAMBDA activity :
    Try(sar_map_law_enforcement(case), LAMBDA law_enforcement :
    Try(sar_map_contact(case, now), LAMBDA contact :
    Try(sar_map_narrative(case), LAMBDA narrative :
    Ok(Stringified(
            Update(Update(Update(Update(Update(Update({}, institution), suspect),
                                        activity), law_enforcement), contact),
                   narrative))))))))))


\* CTRFieldMapper.DEFAULT_FIELD_MAP
DEFAULT_FIELD_MAP ==
    [institution_name |-> "item-1", institution_ein |-> "item-2",
     institution_address |-> "item-3", institution_city_state |-> "item-4",
     conductor_name |-> "item-5", conductor_country |-> "item-6",
     total_cash_amount |-> "item-7", prepared_date |-> "item-8",
     contact_name |-> "text1", contact_phone |-> "text2",
     account_numbers |-> "text3", transaction_summary |-> "text4"]

\* Lines 450-454: {**DEFAULT_FIELD_MAP, **overrides} when the case's
\* ctr_field_map is a dict, the defaults otherwise.
FieldMapOf(case) ==
    LET overrides == Get(case, "ctr_field_map", EmptyDict)
        given     == IF IsDict(overrides) THEN DOMAIN overrides.kv ELSE {}
    IN  [k \in DOMAIN DEFAULT_FIELD_MAP \cup given |->
            IF k \in given THEN overrides.kv[k] ELSE JStr(DEFAULT_FIELD_MAP[k])]

\* CTRFieldMapper._put: out[field_id] = str(value) when the field id is true
\* and the value neither "" nor None; a field id that is a list or dict is
\* no key.
put(out, field_map, logical_key, value) ==
    LET field_id == IF logical_key \in DOMAIN field_map
                    THEN field_map[logical_key] ELSE JNone
    IN  IF PyTruthy(field_id) /\ value # JStr("") /\ value.t # "null"
        THEN (IF Hashable(field_id) THEN Ok(SetItem(out, field_id, JStr(PyStr(value))))
              ELSE Exc(Unhashable(field_id), out))
        ELSE Ok(out)

\* _put called for each [key, value] of entries, first to last.
RECURSIVE PutAll(_, _, _)
PutAll(out, field_map, entries) ==
    IF entries = << >> THEN Ok(out)
    ELSE Try(put(out, field_map, Head(entries)[1], Head(entries)[2]),
             LAMBDA f : PutAll(f, field_map, Tail(entries)))

\* CTRFieldMapper._map_institution
ctr_map_institution(case) ==
    Assign(Inst(case), LAMBDA inst :
    Try(FirstTwo(Get(inst, "branch_state", JStr(""))), LAMBDA state :
    PutAll({}, FieldMapOf(case),
           << << "institution_name", Get(inst, "name", JStr("")) >>,
              << "institution_ein", Get(inst, "ein", JStr("")) >>,
              << "institution_address", Get(inst, "address", JStr("")) >>,
              << "institution_city_state",
                 CityState(Get(inst, "branch_city", JStr("")), state) >> >>)))

\* CTRFieldMapper._map_conductor
ctr_map_conductor(case) ==
    LET subject == Subject(case) IN
    PutAll({}, FieldMapOf(case),
           << << "conductor_name", PyOr(Get(subject, "name", JStr("")), JStr("Unknown")) >>,
              << "conductor_country", Get(subject, "country", JStr("US")) >> >>)

\* Lines 513-519: the summary line of each of the first six transactions.
RECURSIVE SummaryLines(_)
SummaryLines(txns) ==
    IF txns = << >> THEN Ok(<< >>)
    ELSE Assign(Head(txns), LAMBDA tx :
         Try(PyFloat(PyOr(Get(tx, "amount_usd", JNum(0)), JNum(0))), LAMBDA amt :
         Try(SummaryLines(Tail(txns)), LAMBDA rest :
         Ok(<< strip(PyStr(Get(tx, "timestamp", JStr(""))) \o " $"
                     \o FormatMoney(amt) \o " "
                     \o PyStr(Get(tx, "instrument_type", JStr(""))) \o " "
                     \o PyStr(Get(tx, "product_type", JStr("")))) >> \o rest))))

\* seq[:n]
FirstN(seq, n) == SubSeq(seq, 1, IF Len(seq) < n THEN Len(seq) ELSE n)

\* CTRFieldMapper._map_transactions
ctr_map_transactions(case) ==
    Assign(FieldMapOf(case), LAMBDA field_map :
    Assign(Txns(case), LAMBDA txns :
    Try(calculate_total_cash_amount(case), LAMBDA total_cash :
    Try(IF total_cash # 0
        THEN put({}, field_map, "total_cash_amount", JStr(FormatMoney(total_cash)))
        ELSE Ok({}), LAMBDA f1 :
    Try(DistinctAccounts(AccountValues(txns), << >>), LAMBDA accounts :
    Try(IF accounts # << >> THEN CommaJoin(JList(FirstN(accounts, 4))) ELSE Ok(""),
        LAMBDA joined :
    Try(IF accounts # << >>
        THEN put(f1, field_map, "account_numbers", JStr(joined))
        ELSE Ok(f1), LAMBDA f2 :
    Try(SummaryLines(FirstN(txns, 6)), LAMBDA tx_lines :
    IF tx_lines # << >>
    THEN put(f2, field_map, "transaction_summary",
             JStr(Slice(Join(tx_lines, " | "), 0, 500)))
    ELSE Ok(f2)))))))))

\* CTRFieldMapper._map_contact; now is the day datetime.now() gives.
ctr_map_contact(case, now) ==
    Assign(FieldMapOf(case), LAMBDA field_map :
    Assign(Inst(case), LAMBDA inst :
    Assign(Get(inst, "contact_officer", JStr("")), LAMBDA contact_name :
    Try(IF PyTruthy(contact_name)
        THEN put({}, field_map, "contact_name", contact_name)
        ELSE Ok({}), LAMBDA f1 :
    Try(PhoneParts(PyOr(Get(inst, "contact_phone", JStr("")), JStr(""))), LAMBDA parts :
    Try(IF parts # << >>
        THEN put(f1, field_map, "contact_phone", JStr(parts[1] \o "-" \o parts[2]))
        ELSE Ok(f1), LAMBDA f2 :
    put(f2, field_map, "prepared_date",
        JStr(DateOf(now).mm \o "/" \o DateOf(now).dd \o "/" \o DateOf(now).yyyy))))))))

\* The comprehension of lines 462-466: as Stringified, for the true keys.
StringifiedTrueKeys(fields) ==
    {e \in Stringified(fields) : PyTruthy(e.key)}

\* CTRFieldMapper(case_data).map_all_fields(), run on the day now: the
\* exception it ends with, or the field map.
ctr_map_all_fields(case_data, now) ==
    Assign(normalize_case_data(case_data), LAMBDA case :
    Try(ctr_map_institution(case), LAMBDA institution :
    Try(ctr_map_conductor(case), LAMBDA conductor :
    Try(ctr_map_transactions(case), LAMBDA transactions :
    Try(ctr_map_contact(case, now), LAMBDA contact :
    Ok(StringifiedTrueKeys(
            Update(Update(Update(Update({}, institution), conductor),
                          transactions), contact))))))))


(* ------------------------------- cases ---------------------------------- *)

\* A transaction with the three tags and the amount the classifier reads.
Txn(instrument_type, product_type, type, amount_usd) ==
    JDict([instrument_type |-> JStr(instrument_type),
           product_type    |-> JStr(product_type),
           type            |-> JStr(type),
           amount_usd      |-> JNum(amount_usd)])

\* d with d[key] = value, and d without key.
With(d, key, value) ==
    JDict([k \in DOMAIN d.kv \cup {key} |-> IF k = key THEN value ELSE d.kv[k]])

Without(d, key) == JDict([k \in DOMAIN d.kv \ {key} |-> d.kv[k]])

Texts(seq) == JList([i \in DOMAIN seq |-> JStr(seq[i])])

\* The submission {}.
EmptyCase == EmptyDict

\* Four cash deposits of 9200, 9500, 9800 and 9100 (total 37600) and a red
\* flag in threshold language only.
CashCase ==
    JDict([case_id      |-> JStr("CASE-CTR"),
           transactions |->
               JList(<< Txn("", "", "cash_deposit", 9200),
                        Txn("", "", "cash_deposit", 9500),
                        Txn("", "", "cash_deposit", 9800),
                        Txn("", "", "cash_deposit", 9100) >>),
           alert |-> JDict([red_flags |-> Texts(<< "cash exceeds $10,000 threshold" >>)])])

\* One wire of 500 and the red flag "possible structuring detected".
WireCase ==
    JDict([case_id      |-> JStr("CASE-SAR"),
           transactions |-> JList(<< Txn("", "", "wire", 500) >>),
           alert |-> JDict([red_flags |-> Texts(<< "possible structuring detected" >>)])])

\* One currency exchange of exactly 10000 and a structuring finding.
BothCase ==
    JDict([case_id      |-> JStr("CASE-BOTH"),
           transactions |-> JList(<< Txn("Currency Exchange", "", "wire", 10000) >>),
           SuspiciousActivityInformation |->
               JDict([29_Structuring |-> Texts(<< "possible structuring detected" >>)])])

\* {"case_id": "CASE-NULL", "transactions": null}
NullTxCase == JDict([case_id |-> JStr("CASE-NULL"), transactions |-> JNone])

\* The payloads submitted to the pipeline: a case object, or a list
\* (ReportSubmission.transaction_data is not validated further).
Inputs ==
    {EmptyCase, CashCase, WireCase, BothCase, NullTxCase,
     JList(<< BothCase >>), JList(<< >>)}

\* A transaction of sample_transaction (scripts/test_crew.py): the amount is
\* under the key "amount".
SampleTxn(amount) == JDict([type |-> JStr("cash_deposit"), amount |-> JNum(amount)])

\* The values of "transactions" the functions are applied to.  An optional
\* value is the key being absent (None) or present.
TransactionsValues ==
    { None,
      Some(JList(<< >>)),
      Some(CashCase.kv.transactions),
      Some(WireCase.kv.transactions),
      Some(BothCase.kv.transactions),
      Some(JList(<< Txn("", "", "cash_deposit", 9999), Txn("", "", "wire", 5000) >>)),
      Some(JList(<< Txn(" Cash ", "", "deposit", 6000), JNum(5), JStr("cash"),
                    Txn("", "Foreign CURRENCY", "", 4001) >>)),
      Some(JList(<< SampleTxn(9200), SampleTxn(9500), SampleTxn(9800),
                    SampleTxn(9100) >>)),
      Some(JList(<< JDict([type |-> JStr("cash"), amount_usd |-> JStr(" 10000 ")]) >>)),
      Some(JList(<< JDict([type |-> JStr("cash"), amount_usd |-> JStr("n/a")]) >>)),
      Some(JList(<< JDict([type |-> JStr("cash"), amount_usd |-> JStr("12,000")]) >>)),
      Some(JList(<< JDict([type |-> JStr("cash"), instrument_type |-> JStr("Yes"),
                           amount_usd |-> JNum(100)]) >>)),
      Some(JNone),
      Some(JStr("cash 50000")) }

\* The values of "SuspiciousActivityInformation".
Group(name, value) == JDict([k \in {name} |-> value])

ActivityValues ==
    { None,
      Some(EmptyDict),
      Some(Group("29_Structuring", JList(<< >>))),
      Some(Group("29_Structuring", JBool(FALSE))),
      Some(Group("31_Fraud", JStr("False"))),
      Some(Group("38_MortgageFraud", JList(<< JStr(""), JStr("  "), JNone >>))),
      Some(Group("33_MoneyLaundering", Texts(<< "layering through shell accounts" >>))),
      Some(Group("30_TerroristFinancing", JBool(TRUE))),
      Some(Group("35_OtherSuspiciousActivities", EmptyDict)),
      Some(Group("UnlistedGroup", Texts(<< "suspicious" >>))),
      Some(JNone),
      Some(JStr("none")) }

\* The values of "alert".
AlertValues ==
    { None,
      Some(JDict([red_flags |-> Texts(<< "cash exceeds $10,000 threshold" >>)])),
      Some(JDict([red_flags |-> Texts(<< "over 10K in one week", "", " N/A ", " Yes " >>),
                  trigger_reasons |-> JList(<< >>)])),
      Some(JDict([red_flags |-> Texts(<< "possible structuring detected" >>)])),
      Some(JDict([red_flags |-> Texts(<< "Structuring below the $10,000 threshold" >>)])),
      Some(JDict([trigger_reasons |-> Texts(<< "large deposit", "Wire FRAUD suspected" >>)])),
      Some(JDict([red_flags |-> JStr("UNUSUAL pattern")])),
      Some(JDict([red_flags |-> JNone, trigger_reasons |-> JBool(TRUE)])),
      Some(JNone) }

\* The case with the given sections.
Section(name, value) ==
    IF value = None THEN << >> ELSE [k \in {name} |-> value[1]]

Case(transactions, activity, alert) ==
    JDict(Section("transactions", transactions)
            @@ Section("SuspiciousActivityInformation", activity)
            @@ Section("alert", alert))

\* The values the normalizer, the classifier and the mappers are applied to:
\* the cases above, and values that are no case object.
CaseData ==
    { Case(t, a, l) : t \in TransactionsValues, a \in ActivityValues, l \in AlertValues }
    \cup Inputs
    \cup { JList(<< JNum(5), JStr(" Yes "), JList(<< WireCase >>), CashCase, BothCase >>),
           JList(<< JStr("null"), JList(<< CashCase >>) >>),
           JStr(" Yes "), JNum(37600), JNone, JBool(TRUE) }


\* A case with every section the mappers read.
FullCase ==
    JDict([case_id |-> JStr("CASE-FULL"),
           institution |->
               JDict([name |-> JStr("First Example Bank"), ein |-> JStr("12-3456789"),
                      address |-> JStr("1 Main St"), branch_city |-> JStr("Albany"),
                      branch_state |-> JStr("New York"),
                      primary_federal_regulator |-> JStr(" OCC "),
                      contact_officer |-> JStr("Ann B Lee"),
                      contact_phone |-> JStr("+1 (212) 555-0100")]),
           subject |->
               JDict([name |-> JStr("Jane Q Public"), type |-> JStr("Individual"),
                      country |-> JStr("US"), industry_or_occupation |-> JStr("Trader"),
                      prior_sars |-> Texts(<< "SAR-1", "SAR-2" >>)]),
           SuspiciousActivityInformation |->
               JDict([27_DateOrDateRange |->
                          JDict([from |-> JStr("01/02/2026"), to |-> JStr("02/03/2026")]),
                      26_AmountInvolved |-> JDict([amount_usd |-> JNum(37600)]),
                      29_Structuring |-> Texts(<< "deposits under the threshold" >>),
                      31_Fraud |-> Texts(<< "Wire transfer fraud" >>)]),
           transactions |->
               JList(<< With(With(Txn("", "", "cash_deposit", 9200),
                                  "origin_account", JStr("ACC-1")),
                             "destination_account", JStr("ACC-2")),
                        With(Txn("Cash", "", "deposit", 9500),
                             "origin_account", JStr("ACC-1")) >>),
           alert |-> JDict([red_flags |-> Texts(<< "possible structuring detected" >>)]),
           external_signals |->
               JDict([adverse_media |-> Texts(<< "press report" >>),
                      law_enforcement_contacted |->
                          JDict([contacted |-> JStr("yes"), agency |-> JStr("FBI"),
                                 contact_name |-> JStr("Agent Doe"),
                                 phone |-> JStr("202-555-0199")])]),
           data_quality |-> JDict([notes |-> JStr("two records merged")])])

\* d with d[outer][inner] = value.
WithNested(d, outer, inner, value) == With(d, outer, With(d.kv[outer], inner, value))

\* The sections of a case, and the sub-records of two of them.
SectionNames ==
    {"institution", "subject", "SuspiciousActivityInformation", "alert",
     "data_quality", "external_signals", "transactions"}

SubRecordNames ==
    { << "SuspiciousActivityInformation", "27_DateOrDateRange" >>,
      << "SuspiciousActivityInformation", "26_AmountInvolved" >>,
      << "external_signals", "law_enforcement_contacted" >> }

\* null, and values of a wrong type (" N/A " is null once normalized).
WrongValues == {JNone, JStr(" N/A "), JStr("unknown"), JNum(5), JList(<< >>)}

\* The ctr_field_map overrides a case supplies.
FieldMapOverrides ==
    { JDict([institution_name |-> JStr("custom-1")]),
      JDict([institution_name |-> JStr(""), extra_key |-> JStr("custom-2")]),
      JDict([prepared_date |-> JStr("item-1")]),
      JDict([institution_name |-> JNum(7)]),
      JDict([conductor_name |-> JStr("Yes")]),
      JDict([institution_name |-> Texts(<< "item-1", "item-2" >>)]),
      JNone, JStr("item-1") }

\* text repeated n times.
RECURSIVE Repeated(_, _)
Repeated(text, n) ==
    IF n = 0 THEN ""
    ELSE IF n % 2 = 1 THEN text \o Repeated(text, n - 1)
    ELSE Repeated(text \o text, n \div 2)

\* A text longer than the narrative field.
LongText == "Wire out." \o Repeated(" wire out.", NarrativeLimit \div 10 + 1)

\* Values of single fields that are no text of the expected form.
FieldVariants ==
    { With(FullCase, "narrative", JStr("  Reviewed by the compliance desk.  ")),
      With(FullCase, "narrative", JStr(LongText)),
      WithNested(FullCase, "data_quality", "notes", JStr(LongText)),
      WithNested(FullCase, "SuspiciousActivityInformation", "30_TerroristFinancing",
                 Texts(<< "transfer to a listed entity" >>)),
      WithNested(FullCase, "SuspiciousActivityInformation", "38_MortgageFraud",
                 Texts(<< "straw buyer" >>)),
      WithNested(FullCase, "SuspiciousActivityInformation", "33_MoneyLaundering",
                 Texts(<< "layering", "rapid movement of funds" >>)),
      With(FullCase, "narrative", JStr(" n/a ")),
      WithNested(FullCase, "institution", "branch_state", JNum(36)),
      WithNested(FullCase, "institution", "contact_phone", JNum(2125550100)),
      WithNested(FullCase, "institution", "contact_officer", JStr("Yes")),
      WithNested(FullCase, "institution", "primary_federal_regulator", JStr("State")),
      WithNested(FullCase, "subject", "type", JStr("Entity")),
      WithNested(FullCase, "subject", "name", JStr("Cher")),
      WithNested(FullCase, "subject", "name", JNone),
      WithNested(FullCase, "subject", "prior_sars", JList(<< JNum(1) >>)),
      WithNested(FullCase, "SuspiciousActivityInformation", "26_AmountInvolved",
                 JDict([amount_usd |-> JStr("12,000")])),
      WithNested(FullCase, "SuspiciousActivityInformation", "26_AmountInvolved",
                 JDict([amount_usd |-> JNum(0 - 500)])),
      WithNested(FullCase, "SuspiciousActivityInformation", "26_AmountInvolved",
                 JDict([amount_usd |-> JStr("123456789012")])),
      WithNested(FullCase, "SuspiciousActivityInformation", "26_AmountInvolved",
                 JDict([amount_usd |-> JStr("99999999999")])),
      WithNested(FullCase, "SuspiciousActivityInformation", "26_AmountInvolved",
                 JDict([amount_usd |-> JNum(0)])),
      WithNested(FullCase, "SuspiciousActivityInformation", "27_DateOrDateRange",
                 JDict([from |-> JStr("2026-01-02"), to |-> JNone])),
      WithNested(FullCase, "SuspiciousActivityInformation",
                 "35_OtherSuspiciousActivities", Texts(<< "kiting", "", "layering" >>)),
      With(FullCase, "transactions",
           JList(<< With(Txn("", "", "cash", 12000), "origin_account", JNum(1001)),
                    JStr("cash") >>)),
      With(FullCase, "external_signals",
           JDict([law_enforcement_contacted |->
                      JDict([contacted |-> JBool(TRUE), agency |-> JStr("Interpol"),
                             phone |-> JStr("555-0199")])])) }

\* The full case with one section or sub-record absent, null or of a wrong
\* type, and the case that holds nothing but such a section.
SectionVariants ==
    { Without(FullCase, name) : name \in SectionNames }
        \cup { With(FullCase, name, value) : name \in SectionNames, value \in WrongValues }
        \cup { WithNested(FullCase, path[1], path[2], value) :
                    path \in SubRecordNames, value \in WrongValues }
        \cup { With(EmptyCase, name, JNone) : name \in SectionNames }

\* The cases the mappers are applied to, as submitted and normalized.
SubmittedCases ==
    {FullCase, EmptyCase, CashCase, WireCase, BothCase, NullTxCase}
        \cup SectionVariants
        \cup { With(FullCase, "ctr_field_map", overrides) : overrides \in FieldMapOverrides }
        \cup FieldVariants
        \cup { JList(<< JNum(5), FullCase >>), JStr("case"), JNone }

MapperCases ==
    SubmittedCases \cup { normalize_case_data(case) : case \in SubmittedCases }


(* ---------------- agent outputs and _parse_jsonish (crew.py) ----------- *)

\* A decoded JSON value of an agent: its Python type and, for a dict, the
\* keys the orchestrator reads ("<absent>" when the dict lacks the key).
Doc(jtype, kb_status, approval_flag, status) ==
    [jtype |-> jtype, kb_status |-> kb_status, approval_flag |-> approval_flag,
     status |-> status]

EmptyDoc == Doc("dict", "<absent>", "<absent>", "<absent>")

\* What kickoff() hands back: a CrewOutput carrying .raw, or a plain str;
\* "valid" says whether json.loads accepts the text, "doc" is what it decodes to.
Output(kind, valid, doc) == [kind |-> kind, valid |-> valid, doc |-> doc]

\* A dict of the router agent that also states the report types itself:
\* its report_types, report_type and total_cash_amount (Some(value)).
RouterDoc(kb_status, types, type, total) ==
    [jtype |-> "dict", kb_status |-> kb_status, approval_flag |-> "<absent>",
     status |-> "<absent>", report_types |-> Some(types), report_type |-> Some(type),
     total_cash_amount |-> Some(total)]

RouterOutputs ==
    { Output("CrewOutput", TRUE,  Doc("dict", "'EXISTS'", "<absent>", "<absent>")),
      Output("CrewOutput", TRUE,  Doc("dict", "'MISSING'", "<absent>", "<absent>")),
      Output("str",        TRUE,  RouterDoc("'EXISTS'", << "CTR" >>, "CTR", 10000)),
      Output("CrewOutput", FALSE, EmptyDoc),
      Output("CrewOutput", TRUE,  Doc("list", "<absent>", "<absent>", "<absent>")) }

ValidatorOutputs ==
    { Output("CrewOutput", TRUE,  Doc("dict", "<absent>", "True", "'APPROVED'")),
      Output("CrewOutput", TRUE,  Doc("dict", "<absent>", "False", "'REJECTED'")),
      Output("CrewOutput", TRUE,  Doc("dict", "<absent>", "<absent>", "'APPROVED'")),
      Output("CrewOutput", TRUE,  Doc("dict", "<absent>", "'false'", "'REJECTED'")),
      Output("CrewOutput", FALSE, EmptyDoc),
      Output("CrewOutput", TRUE,  Doc("list", "<absent>", "<absent>", "<absent>")) }

\* Exceptions an external call may raise: str(exc) with and without text.
Failures == {"agent call failed", ""}

\* _parse_jsonish
parse_jsonish(payload) ==
    IF payload.kind = "dict" THEN payload.doc
    ELSE IF payload.kind = "str"
         THEN (IF payload.valid THEN payload.doc ELSE EmptyDoc)
    ELSE IF payload.kind = "CrewOutput"
         THEN (IF payload.valid THEN payload.doc ELSE EmptyDoc)
    ELSE EmptyDoc

\* dict.get on a decoded value: a value that is no dict has no .get.
HasGet(doc) == doc.jtype = "dict"


(* --------------- the knowledge base (kb_manager.py) --------------------- *)

\* The default ttl of _set_cached, in seconds.
DefaultTtl == 300

\* The clock advances by TickLength seconds at a time, up to MaxClock.
TickLength == 150

MaxClock == 300

\* The report type and the category the lookups are made for, and the
\* cache keys they use.
KBReportTypes == {"SAR"}

Categories == {None}

CacheKeys ==
    {"schema:SAR", "validation_rules:SAR", "field_mappings:SAR", "risk_indicators:all"}

\* The schema documents that are rows of report_schemas at one time or
\* another, and the rows of the other tables as the store's get_* methods
\* return them.
SchemaVersions ==
    { JDict([version |-> JStr("1.0")]), JDict([version |-> JStr("2.0")]) }

RuleRows == JList(<< JDict([rule_id |-> JStr("R1"), severity |-> JStr("critical")]) >>)

MappingRows == JList(<< >>)

IndicatorRows ==
    << JDict([indicator_id |-> JStr("RI-1"), category |-> JStr("structuring")]),
       JDict([indicator_id |-> JStr("RI-2"), category |-> JStr("all")]) >>

\* json.dumps(value) and json.loads(raw): the text of a value built of JSON
\* types only, as the JSONB columns and the get_* methods give them, decodes
\* to that value; the text is kept as the value it encodes.
json_dumps(value) == [json |-> value]

json_loads(raw) == raw.json

\* redis.get(key) at the time now: RedisError when the cache is not
\* reached, else the text under the key, None once it has expired.
redis_get(cache, key, now, up) ==
    IF ~up THEN Exc("RedisError", None)
    ELSE IF cache[key] # None /\ now < cache[key][1].expires
    THEN Ok(Some(cache[key][1].raw))
    ELSE Ok(None)

\* redis.set(key, raw, ex=ttl) at the time now.
redis_set(cache, key, raw, now, ttl, up) ==
    IF ~up THEN Exc("RedisError", cache)
    ELSE Ok([cache EXCEPT ![key] = Some([raw |-> raw, expires |-> now + ttl])])

\* _get_cached without its "except RedisError".
get_cached_unguarded(cache, key, now, up) ==
    Try(redis_get(cache, key, now, up), LAMBDA text :
    Ok(IF text = None THEN None ELSE Some(json_loads(text[1]))))

\* _get_cached(key): the decoded entry, None when there is none or the
\* read raised.
get_cached(cache, key, now, up) ==
    Assign(redis_get(cache, key, now, up), LAMBDA got :
    IF got.raised # None THEN Ok(None)
    ELSE Ok(IF got.value = None THEN None ELSE Some(json_loads(got.value[1]))))

\* _set_cached with the entry kept for ever (no ex=ttl).
set_cached_for_ever(cache, key, value, now, ttl, up) ==
    Ok(redis_set(cache, key, json_dumps(value), now, 2 * MaxClock + ttl, up).value)

\* _set_cached(key, value, ttl): the cache afterwards; a RedisError is
\* logged, not raised.
set_cached(cache, key, value, now, ttl, up) ==
    Ok(redis_set(cache, key, json_dumps(value), now, ttl, up).value)

\* What a lookup gives: the exception or the value returned, the cache
\* afterwards and whether the store was read.
Hit(value, cache) == [raised |-> None, value |-> value, cache |-> cache, read |-> FALSE]

Miss(value, cache) == [raised |-> None, value |-> value, cache |-> cache, read |-> TRUE]

Failed(msg, cache, read) == [raised |-> Some(msg), value |-> JNone, cache |-> cache, read |-> read]

\* PostgreSQLClient.get_schema(report_type): the schema_json of the active
\* row the query finds first (row, when there are several), None without one.
postgres_get_schema(store, report_type, row) ==
    IF store[report_type] = {} THEN None ELSE Some(row)

\* PostgreSQLClient.add_schema(...): the row is added and flushed, and the
\* session closed.
postgres_add_schema(store, report_type, schema_json) ==
    SessionExit(store, [store EXCEPT ![report_type] = @ \cup {schema_json}])

\* PostgreSQLClient.get_risk_indicators(category)
postgres_get_risk_indicators(category) ==
    IF category # None /\ category[1] # ""
    THEN JList(SelectSeq(IndicatorRows, LAMBDA i : i.kv["category"] = JStr(category[1])))
    ELSE JList(IndicatorRows)

\* KBManager.get_schema(report_type)
kb_get_schema(cache, store, report_type, row, now, get_up, set_up) ==
    Assign("schema:" \o report_type, LAMBDA cache_key :
    Assign(get_cached(cache, cache_key, now, get_up), LAMBDA cached :
    IF cached.raised # None THEN Failed(cached.raised[1], cache, FALSE)
    ELSE IF cached.value # None /\ PyTruthy(cached.value[1]) THEN Hit(cached.value[1], cache)
    ELSE Assign(postgres_get_schema(store, report_type, row), LAMBDA schema :
         IF schema = None \/ ~PyTruthy(schema[1])
         THEN Failed("Schema not found in PostgreSQL for " \o report_type, cache, TRUE)
         ELSE Assign(set_cached(cache, cache_key, schema[1], now, DefaultTtl, set_up),
                     LAMBDA set :
              IF set.raised # None THEN Failed(set.raised[1], cache, TRUE)
              ELSE Miss(schema[1], set.value)))))

\* get_validation_rules, get_field_mappings and get_risk_indicators: the
\* rows are cached in a dict under the name item.
kb_get_rows(cache, cache_key, item, rows, now, get_up, set_up) ==
    Assign(get_cached(cache, cache_key, now, get_up), LAMBDA cached :
    IF cached.raised # None THEN Failed(cached.raised[1], cache, FALSE)
    ELSE IF cached.value # None /\ PyTruthy(cached.value[1])
    THEN Hit(Get(cached.value[1], item, JList(<< >>)), cache)
    ELSE Assign(set_cached(cache, cache_key, JDict((item :> rows)), now, DefaultTtl, set_up),
                LAMBDA set :
         IF set.raised # None THEN Failed(set.raised[1], cache, TRUE)
         ELSE Miss(rows, set.value)))

\* KBManager.get_validation_rules(report_type)
kb_get_validation_rules(cache, report_type, now, get_up, set_up) ==
    kb_get_rows(cache, "validation_rules:" \o report_type, "rules", RuleRows,
                now, get_up, set_up)

\* KBManager.get_field_mappings(report_type)
kb_get_field_mappings(cache, report_type, now, get_up, set_up) ==
    kb_get_rows(cache, "field_mappings:" \o report_type, "mappings", MappingRows,
                now, get_up, set_up)

\* KBManager.get_risk_indicators(category)
kb_get_risk_indicators(cache, category, now, get_up, set_up) ==
    kb_get_rows(cache,
                "risk_indicators:" \o (IF category # None /\ category[1] # ""
                                       THEN category[1] ELSE "all"),
                "indicators", postgres_get_risk_indicators(category), now, get_up, set_up)


(* ------------------------------- state --------------------------------- *)

VARIABLES
    pc,                \* where each run stands (see below)
    origin,            \* "api" (submit_report) or "script" (scripts/test_crew.py)
    data,              \* the transaction_data of the run
    job_status,        \* the committed job_status table
    exc,               \* the exception bound in run_crew_workflow's handler
    router_output,     \* create_compliance_crew locals, None until assigned
    router_result,     \* what router_crew.kickoff() returned (line 54)
    report_types,
    validation_output,
    reports,
    outcome,           \* what create_compliance_crew returned or raised
    events,            \* the stage calls and returns of the run, in order
    files,             \* the PDFs written to the output directory
    audit_log,         \* the committed audit_log table
    polls,             \* status queries made for the run
    response,          \* the last answer of get_job_status
    raw,               \* the value field_mapper.py's functions are applied to
    normalized,        \* normalize_case_data(raw), None until computed
    renormalized,      \* normalize_case_data of that result
    classified,        \* what the classifier functions gave for raw
    mapped,            \* the first run of a mapper on raw: mapper, day, outcome
    remapped,          \* the second run of that mapper on raw
    filed,             \* the call of a filer's fill_from_dict on raw
    redis,             \* the cache: under each key the text and its expiry
    postgres,          \* the active rows of report_schemas, by report type
    clock,             \* the time, in seconds
    looked,            \* the last call of the knowledge base
    retired            \* when each schema last ceased to be active

\* The variables of the pipeline, and those of the functions applied on
\* their own.
pipeline_vars ==
    << pc, origin, data, job_status, exc, router_output, router_result, report_types,
       validation_output, reports, outcome, events, files, audit_log,
       polls, response >>

case_vars == << raw, normalized, renormalized, classified, mapped, remapped, filed >>

kb_vars == << redis, postgres, clock, looked, retired >>

function_vars == << case_vars, kb_vars >>

vars == << pipeline_vars, function_vars >>

\* pc: "new" not started; "queued" submit_report returned and the background
\* task is pending; "router", "researcher", "aggregator", "narrative",
\* "validator", "ctr_filer", "sar_filer" the run is blocked in that call of
\* create_compliance_crew; "crew_done" create_compliance_crew has returned or
\* raised to its caller; "except" the handler of run_crew_workflow is about
\* to run; "finished" the caller returned; "crashed" an exception escaped it.
Stages ==
    {"router", "researcher", "aggregator", "narrative", "validator",
     "ctr_filer", "sar_filer"}

NoOutcome == [returned |-> None, raised |-> None]

Returned(result) == [returned |-> Some(result), raised |-> None]

Raised(msg) == [returned |-> None, raised |-> Some(msg)]

InSeq(x, seq) == \E i \in DOMAIN seq : seq[i] = x

PipelineInit ==
    /\ pc = [r \in Runs |-> "new"]
    /\ origin = [r \in Runs |-> "none"]
    /\ data = [r \in Runs |-> EmptyCase]
    /\ job_status = << >>
    /\ exc = [r \in Runs |-> None]
    /\ router_output = [r \in Runs |-> None]
    /\ router_result = [r \in Runs |-> None]
    /\ report_types = [r \in Runs |-> << >>]
    /\ validation_output = [r \in Runs |-> None]
    /\ reports = [r \in Runs |-> << >>]
    /\ outcome = [r \in Runs |-> NoOutcome]
    /\ events = [r \in Runs |-> << >>]
    /\ files = {}
    /\ audit_log = {}
    /\ polls = [r \in Runs |-> 0]
    /\ response = [r \in Runs |-> None]

\* The knowledge base at the start: nothing cached, one active schema.
KBStart ==
    /\ redis = [k \in CacheKeys |-> None]
    /\ postgres = [report_type \in KBReportTypes |-> {JDict([version |-> JStr("1.0")])}]
    /\ clock = 0
    /\ looked = None
    /\ retired = [v \in SchemaVersions |-> None]

FunctionInit(inputs) ==
    /\ raw \in inputs
    /\ normalized = None
    /\ renormalized = None
    /\ classified = None
    /\ mapped = None
    /\ remapped = None
    /\ filed = None
    /\ KBStart

Init == PipelineInit /\ FunctionInit({EmptyCase})

(* ---------------- create_compliance_crew (crew.py) --------------------- *)

\* Mutant of RouterRecord: the agent's own report_types, report_type and
\* total_cash_amount stand when it gave them (router_output.setdefault).
RouterRecordAsAgentSays(doc, types, total) ==
    LET said == "report_types" \in DOMAIN doc
        kept == IF said THEN doc.report_types[1] ELSE types
    IN  [kb_status         |-> doc.kb_status,
         report_types      |-> kept,
         total_cash_amount |-> IF said THEN doc.total_cash_amount[1] ELSE total,
         report_type       |-> IF said THEN doc.report_type[1]
                               ELSE IF types # << >>
                               THEN (IF InSeq("SAR", types) THEN "SAR" ELSE types[1])
                               ELSE "NONE"]

\* The value of router_output after lines 55-63: the three keys are assigned
\* whatever the agent's dict held under them.
RouterRecord(doc, types, total) ==
    [kb_status         |-> doc.kb_status,
     report_types      |-> types,
     total_cash_amount |-> total,
     report_type       |-> IF types # << >>
                           THEN (IF InSeq("SAR", types) THEN "SAR" ELSE types[1])
                           ELSE "NONE"]

\* The result returned at lines 66-77.
NoFilingResult(ro) ==
    [router     |-> ro,
     validation |-> Doc("dict", "<absent>", "False", "'NO_FILING_REQUIRED'"),
     final      |-> [status |-> "no_filing_required"]]

\* validation_output of the CTR-only path, lines 109-113.
CtrOnlyValidation == Doc("dict", "<absent>", "True", "'APPROVED'")

\* final_output of lines 125-129.
NeedsReview(vo) == [status |-> "needs_review", validation_report |-> vo]

\* The result returned at lines 131-135.
CrewResult(ro, vo, final) == [router |-> ro, validation |-> vo, final |-> final]

\* Mutant of FinalOfReports: the wrapper also around a lone result.
FinalAlwaysWrapped(reps) == [status |-> "success", reports |-> reps]

\* final_output of line 123.
FinalOfReports(reps) ==
    IF Len(reps) = 1 THEN reps[1] ELSE [status |-> "success", reports |-> reps]

\* A step of the run: the next pc, the validation_output it assigns (None when
\* it assigns none), the outcome when the function ends, and the stage events.
Step(next, vo, out, ev) == [pc |-> next, vo |-> vo, outcome |-> out, ev |-> ev]

\* Mutant of Gate: a missing approval_flag counts as approval
\* (validation_output.get("approval_flag", True)).
GateFailOpen(ro, types, vo) ==
    IF ~HasGet(vo)
    THEN Step("crew_done", Some(vo),
              Raised("'list' object has no attribute 'get'"), << >>)
    ELSE IF vo.approval_flag = "<absent>" \/ Truthy(vo.approval_flag)
    THEN (IF InSeq("CTR", types)
          THEN Step("ctr_filer", Some(vo), NoOutcome, << <<"call", "ctr_filer">> >>)
          ELSE IF InSeq("SAR", types)
          THEN Step("sar_filer", Some(vo), NoOutcome, << <<"call", "sar_filer">> >>)
          ELSE Step("crew_done", Some(vo),
                    Returned(CrewResult(ro, vo, FinalOfReports(<< >>))), << >>))
    ELSE Step("crew_done", Some(vo),
              Returned(CrewResult(ro, vo, NeedsReview(vo))), << >>)

\* Lines 115-135 up to the first filer call: the approval gate.
Gate(ro, types, vo) ==
    IF ~HasGet(vo)
    THEN Step("crew_done", Some(vo),
              Raised("'list' object has no attribute 'get'"), << >>)
    ELSE IF Truthy(vo.approval_flag)
    THEN (IF InSeq("CTR", types)
          THEN Step("ctr_filer", Some(vo), NoOutcome, << <<"call", "ctr_filer">> >>)
          ELSE IF InSeq("SAR", types)
          THEN Step("sar_filer", Some(vo), NoOutcome, << <<"call", "sar_filer">> >>)
          ELSE Step("crew_done", Some(vo),
                    Returned(CrewResult(ro, vo, FinalOfReports(<< >>))), << >>))
    ELSE Step("crew_done", Some(vo),
              Returned(CrewResult(ro, vo, NeedsReview(vo))), << >>)

\* Mutant of AfterResearch: the CTR-only branch is taken whenever CTR is
\* required, also when SAR is required too.
AfterResearchCtrFirst(ro, types) ==
    IF InSeq("SAR", types) /\ ~InSeq("CTR", types)
    THEN Step("aggregator", None, NoOutcome, << <<"call", "aggregator">> >>)
    ELSE Gate(ro, types, CtrOnlyValidation)

\* Lines 85-113: the SAR sub-pipeline starts when SAR is required, else the
\* CTR-only validation is assigned and the gate follows.
AfterResearch(ro, types) ==
    IF InSeq("SAR", types)
    THEN Step("aggregator", None, NoOutcome, << <<"call", "aggregator">> >>)
    ELSE Gate(ro, types, CtrOnlyValidation)

\* Mutant of AfterRouter: a schema reported missing does not start the
\* researcher; the run goes on as if the schema existed.
AfterRouterNoResearch(ro, types) ==
    IF types = << >>
    THEN Step("crew_done", None, Returned(NoFilingResult(ro)), << >>)
    ELSE AfterResearch(ro, types)

\* Lines 65-83: the short circuit, then the researcher when the schema is
\* reported missing.
AfterRouter(ro, types) ==
    IF types = << >>
    THEN Step("crew_done", None, Returned(NoFilingResult(ro)), << >>)
    ELSE IF ro.kb_status = "'MISSING'"
    THEN Step("researcher", None, NoOutcome, << <<"call", "researcher">> >>)
    ELSE AfterResearch(ro, types)

\* The run r takes step st after the stage it was blocked in ended with
\* event "how" ("return" or "raise").
Take(r, how, st) ==
    /\ pc' = [pc EXCEPT ![r] = st.pc]
    /\ validation_output' =
          [validation_output EXCEPT ![r] = IF st.vo = None THEN @ ELSE st.vo]
    /\ outcome' = [outcome EXCEPT ![r] = st.outcome]
    /\ events' = [events EXCEPT ![r] = (@ \o << <<how, pc[r]>> >>) \o st.ev]

\* An external call of the run raises: the exception leaves
\* create_compliance_crew.
Fail(r, msg) == Take(r, "raise", Step("crew_done", None, Raised(msg), << >>))


\* The stage the run was blocked in returned and the orchestrator's own code
\* raises before the next call.
Throw(r, msg) == Take(r, "return", Step("crew_done", None, Raised(msg), << >>))

\* normalized_case of line 43, as the payload handed on.
normalized_case(r) == normalize_case_data(data[r])

\* create_compliance_crew is entered: lines 43-54 up to router_crew.kickoff().
EnterCrew(r) ==
    /\ events' = [events EXCEPT ![r] = @ \o << <<"call", "router">> >>]
    /\ UNCHANGED << router_output, router_result, report_types, validation_output, reports,
                    outcome, files, audit_log >>

\* router_crew.kickoff() ends; lines 55-83 follow when it returned.
router_kickoff(r) ==
    /\ UNCHANGED function_vars
    /\ pc[r] = "router"
    /\ \/ \E msg \in Failures : Fail(r, msg) /\ UNCHANGED << router_output, router_result, report_types >>
       \/ \E out \in RouterOutputs :
            LET doc   == parse_jsonish(out)
                types == determine_report_types(normalized_case(r))
                total == calculate_total_cash_amount(normalized_case(r))
                ro    == RouterRecord(doc, types.value, total.value)
            IN  IF types.raised # None
                THEN /\ Throw(r, types.raised[1])
                     /\ router_result' = [router_result EXCEPT ![r] = Some(out)]
                     /\ UNCHANGED << router_output, report_types >>
                ELSE IF doc.jtype # "dict"
                THEN /\ Throw(r, "list indices must be integers or slices, not str")
                     /\ router_result' = [router_result EXCEPT ![r] = Some(out)]
                     /\ report_types' = [report_types EXCEPT ![r] = types.value]
                     /\ UNCHANGED router_output
                ELSE /\ Take(r, "return", AfterRouter(ro, types.value))
                     /\ router_output' = [router_output EXCEPT ![r] = Some(ro)]
                     /\ router_result' = [router_result EXCEPT ![r] = Some(out)]
                     /\ report_types' = [report_types EXCEPT ![r] = types.value]
    /\ UNCHANGED << origin, data, job_status, exc, reports, files, audit_log,
                    polls, response >>

\* researcher_crew.kickoff() ends (line 83); its return value is dropped.
researcher_kickoff(r) ==
    /\ UNCHANGED function_vars
    /\ pc[r] = "researcher"
    /\ \/ \E msg \in Failures : Fail(r, msg)
       \/ Take(r, "return", AfterResearch(router_output[r][1], report_types[r]))
    /\ UNCHANGED << origin, data, job_status, exc, router_output, router_result, report_types,
                    reports, files, audit_log, polls, response >>

\* main_crew.kickoff() (line 105) runs its three tasks in order
\* (Process.sequential); the first two.
main_crew_task(r) ==
    /\ UNCHANGED function_vars
    /\ pc[r] \in {"aggregator", "narrative"}
    /\ \/ \E msg \in Failures : Fail(r, msg)
       \/ LET next == IF pc[r] = "aggregator" THEN "narrative" ELSE "validator"
          IN  Take(r, "return", Step(next, None, NoOutcome, << <<"call", next>> >>))
    /\ UNCHANGED << origin, data, job_status, exc, router_output, router_result, report_types,
                    reports, files, audit_log, polls, response >>

\* The validator task ends main_crew.kickoff(); lines 106 and 115-129 follow.
validator_task(r) ==
    /\ UNCHANGED function_vars
    /\ pc[r] = "validator"
    /\ \/ \E msg \in Failures : Fail(r, msg)
       \/ \E out \in ValidatorOutputs :
            Take(r, "return",
                 Gate(router_output[r][1], report_types[r], parse_jsonish(out)))
    /\ UNCHANGED << origin, data, job_status, exc, router_output, router_result, report_types,
                    reports, files, audit_log, polls, response >>


(* ------------------- filers (pdf_tools.py) ----------------------------- *)

\* The result dict of fill_from_dict; the output path is built from the
\* report type, the case id and a fresh id, here the run.
FilingResult(r, report_type, case) ==
    [status      |-> "success",
     case_id     |-> PyStr(Get(case, "case_id", JStr("UNKNOWN"))),
     report_type |-> report_type,
     pdf_path    |-> << report_type, PyStr(Get(case, "case_id", JStr("UNKNOWN"))), r >>]

\* PostgreSQLClient.log_audit as called by _audit_log.
log_audit(table, result) ==
    SessionExit(table,
                table \cup {[action |-> "report_filed", entity_id |-> result.pdf_path]})

\* <Filer>().fill_from_dict(normalized_case) ends (lines 120 and 122).  When it
\* returns, the PDF is written and the audit entry attempted; line 123 and the
\* return follow after the last filer.
Fill(r, report_type) ==
    \/ /\ \E msg \in Failures : Fail(r, msg)
       /\ UNCHANGED << reports, files, audit_log >>
    \/ LET result == FilingResult(r, report_type, normalize_case_data(normalized_case(r)))
           reps   == Append(reports[r], result)
           ro     == router_output[r][1]
           vo     == validation_output[r][1]
       IN  /\ reports' = [reports EXCEPT ![r] = reps]
           /\ files' = files \cup {result.pdf_path}
           /\ audit_log' = log_audit(audit_log, result)
           /\ IF report_type = "CTR" /\ InSeq("SAR", report_types[r])
              THEN Take(r, "return",
                        Step("sar_filer", None, NoOutcome, << <<"call", "sar_filer">> >>))
              ELSE Take(r, "return",
                        Step("crew_done", None,
                             Returned(CrewResult(ro, vo, FinalOfReports(reps))), << >>))

ctr_fill_from_dict(r) ==
    /\ UNCHANGED function_vars
    /\ pc[r] = "ctr_filer"
    /\ Fill(r, "CTR")
    /\ UNCHANGED << origin, data, job_status, exc, router_output, router_result, report_types,
                    polls, response >>

sar_fill_from_dict(r) ==
    /\ UNCHANGED function_vars
    /\ pc[r] = "sar_filer"
    /\ Fill(r, "SAR")
    /\ UNCHANGED << origin, data, job_status, exc, router_output, router_result, report_types,
                    polls, response >>

(* ------------------- callers (routes.py, test_crew.py) ----------------- *)

\* submit_report: the job id is fresh, create_job runs, the background task is
\* queued and the id returned.
submit_report(r) ==
    /\ UNCHANGED function_vars
    /\ pc[r] = "new"
    /\ \E d \in Inputs :
         /\ data' = [data EXCEPT ![r] = d]
         /\ job_status' = create_job(job_status, r, d)
    /\ origin' = [origin EXCEPT ![r] = "api"]
    /\ pc' = [pc EXCEPT ![r] = "queued"]
    /\ UNCHANGED << exc, router_output, router_result, report_types, validation_output, reports,
                    outcome, events, files, audit_log, polls, response >>

\* scripts/test_crew.py main: create_compliance_crew(payload) called directly.
main(r) ==
    /\ UNCHANGED function_vars
    /\ pc[r] = "new"
    /\ \E d \in Inputs : data' = [data EXCEPT ![r] = d]
    /\ origin' = [origin EXCEPT ![r] = "script"]
    /\ pc' = [pc EXCEPT ![r] = "router"]
    /\ EnterCrew(r)
    /\ UNCHANGED << job_status, exc, polls, response >>

\* run_crew_workflow, lines 19-22: the processing update, then the call of
\* create_compliance_crew; an exception of the update enters the handler.
run_crew_workflow(r) ==
    /\ UNCHANGED function_vars
    /\ pc[r] = "queued"
    /\ LET u == update_job_status(job_status, r, "processing", Some("router"),
                                  Some(5), None, None)
       IN  /\ job_status' = u.table
           /\ IF u.raised # None
              THEN /\ pc' = [pc EXCEPT ![r] = "except"]
                   /\ exc' = [exc EXCEPT ![r] = u.raised]
                   /\ UNCHANGED << router_output, router_result, report_types, validation_output,
                                   reports, outcome, events, files, audit_log >>
              ELSE /\ pc' = [pc EXCEPT ![r] = "router"]
                   /\ exc' = exc
                   /\ EnterCrew(r)
    /\ UNCHANGED << origin, data, polls, response >>

\* create_compliance_crew hands control back to its caller.  In
\* run_crew_workflow (lines 22-25) the result is written with the completed
\* update, and an exception of the pipeline or of that update enters the
\* handler; in test_crew.py the result is printed, and an exception escapes.
crew_caller_resumes(r) ==
    /\ UNCHANGED function_vars
    /\ pc[r] = "crew_done"
    /\ IF origin[r] = "script"
       THEN /\ pc' = [pc EXCEPT ![r] =
                        IF outcome[r].raised = None THEN "finished" ELSE "crashed"]
            /\ UNCHANGED << job_status, exc >>
       ELSE IF outcome[r].raised # None
       THEN /\ pc' = [pc EXCEPT ![r] = "except"]
            /\ exc' = [exc EXCEPT ![r] = outcome[r].raised]
            /\ UNCHANGED job_status
       ELSE LET u == update_job_status(job_status, r, "completed", None,
                                       Some(100), outcome[r].returned, None)
            IN  /\ job_status' = u.table
                /\ pc' = [pc EXCEPT ![r] =
                            IF u.raised # None THEN "except" ELSE "finished"]
                /\ exc' = [exc EXCEPT ![r] = u.raised]
    /\ UNCHANGED << origin, data, router_output, router_result, report_types, validation_output,
                    reports, outcome, events, files, audit_log, polls, response >>

\* run_crew_workflow, lines 24-25: the handler writes failed with str(exc); an
\* exception of that update escapes the background task.
run_crew_workflow_except(r) ==
    /\ UNCHANGED function_vars
    /\ pc[r] = "except"
    /\ LET u == update_job_status(job_status, r, "failed", None, None, None, exc[r])
       IN  /\ job_status' = u.table
           /\ pc' = [pc EXCEPT ![r] =
                       IF u.raised # None THEN "crashed" ELSE "finished"]
    /\ UNCHANGED << origin, data, exc, router_output, router_result, report_types,
                    validation_output, reports, outcome, events, files, audit_log,
                    polls, response >>

\* get_job_status: 404 when get_job finds no row, else the row's fields.
NotFound == [code |-> 404]

Found(job) ==
    [code |-> 200, status |-> job.status, current_agent |-> job.current_agent,
     progress |-> job.progress,
     report_types |-> IF job.result = None THEN << >>
                      ELSE job.result[1].router.report_types,
     result |-> job.result, error |-> job.error_message]

get_job_status(r) ==
    /\ UNCHANGED function_vars
    /\ origin[r] = "api"
    /\ polls[r] < MaxPolls
    /\ polls' = [polls EXCEPT ![r] = @ + 1]
    /\ LET job == get_job(job_status, r)
       IN  response' = [response EXCEPT ![r] =
                           IF job = None THEN Some(NotFound) ELSE Some(Found(job[1]))]
    /\ UNCHANGED << pc, origin, data, job_status, exc, router_output, router_result, report_types,
                    validation_output, reports, outcome, events, files, audit_log >>

Next ==
    \E r \in Runs :
        \/ submit_report(r)
        \/ main(r)
        \/ run_crew_workflow(r)
        \/ router_kickoff(r)
        \/ researcher_kickoff(r)
        \/ main_crew_task(r)
        \/ validator_task(r)
        \/ ctr_fill_from_dict(r)
        \/ sar_fill_from_dict(r)
        \/ crew_caller_resumes(r)
        \/ run_crew_workflow_except(r)
        \/ get_job_status(r)

Spec == Init /\ [][Next]_vars


(* ------------- the functions of field_mapper.py on their own ----------- *)

\* normalize_case_data(raw)
normalize ==
    /\ normalized = None
    /\ normalized' = Some(normalize_case_data(raw))
    /\ UNCHANGED << pipeline_vars, raw, renormalized, classified, mapped, remapped,
                    filed, kb_vars >>

\* normalize_case_data applied to its own result.
normalize_again ==
    /\ normalized # None
    /\ renormalized = None
    /\ renormalized' = Some(normalize_case_data(normalized[1]))
    /\ UNCHANGED << pipeline_vars, raw, normalized, classified, mapped, remapped,
                    filed, kb_vars >>

\* calculate_total_cash_amount(raw), has_suspicious_activity(raw) and
\* determine_report_types(raw), as lines 56 and 58 of crew.py call them.
classify ==
    /\ classified = None
    /\ classified' = Some([total      |-> calculate_total_cash_amount(raw),
                           suspicious |-> has_suspicious_activity(raw),
                           types      |-> determine_report_types(raw)])
    /\ UNCHANGED << pipeline_vars, raw, normalized, renormalized, mapped, remapped,
                    filed, kb_vars >>

FieldMapperInit == PipelineInit /\ FunctionInit(CaseData)

FieldMapperNext ==
    \/ normalize
    \/ normalize_again
    \/ classify

FieldMapperSpec == FieldMapperInit /\ [][FieldMapperNext]_vars

(* ------------------- the mappers on their own --------------------------- *)

\* A run of a mapper on the day now.
MapperRun(mapper, now) ==
    [mapper  |-> mapper,
     now     |-> now,
     outcome |-> IF mapper = "SAR" THEN sar_map_all_fields(raw, now)
                 ELSE ctr_map_all_fields(raw, now)]

\* The first run of a mapper on raw, or the second run of the same mapper,
\* no earlier than the first.
RunMapper(mapper, now) ==
    /\ \/ /\ mapped = None
          /\ mapped' = Some(MapperRun(mapper, now))
          /\ UNCHANGED remapped
       \/ /\ mapped # None
          /\ mapped[1].mapper = mapper
          /\ mapped[1].now <= now
          /\ remapped = None
          /\ remapped' = Some(MapperRun(mapper, now))
          /\ UNCHANGED mapped
    /\ UNCHANGED << pipeline_vars, raw, normalized, renormalized, classified, filed,
                    kb_vars >>

\* SARFieldMapper(raw).map_all_fields()
sar_map == \E now \in Days : RunMapper("SAR", now)

\* CTRFieldMapper(raw).map_all_fields()
ctr_map == \E now \in Days : RunMapper("CTR", now)

MapperInit == PipelineInit /\ FunctionInit(MapperCases)

MapperNext ==
    \/ sar_map
    \/ ctr_map

MapperSpec == MapperInit /\ [][MapperNext]_vars

(* ------------------ the filers on their own (pdf_tools.py) -------------- *)

\* text.startswith(prefix)
startswith(text, prefix) ==
    Len(prefix) <= Len(text) /\ SubSeq(text, 1, Len(prefix)) = prefix

\* The page tables of SARReportFiler (lines 164-185) and CTRReportFiler
\* (lines 231-232).
PAGE2_PREFIXES(filer) ==
    IF filer = "SAR"
    THEN {"item33", "item34", "item35", "item36", "item37", "item38", "item39",
          "item40", "item41", "item42", "item43", "item44", "item45", "item46",
          "item47", "item48", "item49", "item50", "37-3"}
    ELSE {"F2", "f2", "C2", "c2"}

PAGE3_PREFIXES(filer) ==
    IF filer = "SAR" THEN {} ELSE {"F3", "f3", "C3", "c3", "item-", "text"}

PAGE3_FIELDS(filer) == IF filer = "SAR" THEN {"item51"} ELSE {}

\* _page_for_field(field_id): the page index, or the AttributeError of
\* field_id.startswith when a prefix loop runs on a key that is no str.
page_for_field(filer, field_id) ==
    IF field_id.t = "str" /\ field_id.s \in PAGE3_FIELDS(filer) THEN Ok(2)
    ELSE IF PAGE3_PREFIXES(filer) # {} /\ field_id.t # "str"
    THEN Exc(NoAttribute(field_id, "startswith"), 0)
    ELSE IF \E prefix \in PAGE3_PREFIXES(filer) : startswith(field_id.s, prefix) THEN Ok(2)
    ELSE IF PAGE2_PREFIXES(filer) # {} /\ field_id.t # "str"
    THEN Exc(NoAttribute(field_id, "startswith"), 0)
    ELSE IF \E prefix \in PAGE2_PREFIXES(filer) : startswith(field_id.s, prefix) THEN Ok(1)
    ELSE Ok(0)

\* What one pass of the loop of _fill_pdf (lines 77-96) does with an entry of
\* the field map: the index of the page written, or the string appended to
\* errors.  pages is page_fields, the names each page of the writer owns;
\* failing holds the field ids whose update_page_form_field_values raises.
Wrote(page) == [page |-> Some(page), error |-> None]

Skipped(field_id, why) == [page |-> None, error |-> Some(PyStr(field_id) \o ": " \o why)]

Owners(pages, name) == {idx \in 0 .. Len(pages) - 1 : name \in pages[idx + 1]}

FirstOwner(pages, name) ==
    CHOOSE idx \in Owners(pages, name) : \A other \in Owners(pages, name) : idx <= other

FillEntry(filer, pages, entry, failing) ==
    Assign(page_for_field(filer, entry.key), LAMBDA page_idx :
    IF page_idx.raised # None THEN Exc(page_idx.raised[1], Wrote(0))
    ELSE Ok(IF page_idx.value >= Len(pages)
            THEN Skipped(entry.key,
                         "page index " \o ToString(page_idx.value) \o " out of range")
            ELSE IF /\ entry.key.s \notin pages[page_idx.value + 1]
                    /\ Owners(pages, entry.key.s) = {}
            THEN Skipped(entry.key, "field not found in template")
            ELSE IF entry.key.s \in failing
            THEN Skipped(entry.key, "update failed")
            ELSE IF entry.key.s \in pages[page_idx.value + 1] THEN Wrote(page_idx.value)
            ELSE Wrote(FirstOwner(pages, entry.key.s))))

\* _fill_pdf(field_values, out_path): the exception that ends it, or the
\* count of the fields written, the errors (as a set: the order of a dict is
\* not kept here) and the document written to out_path, each value on the
\* page that took it.
fill_pdf(filer, field_values, pages, failing) ==
    Assign({[entry |-> e, did |-> FillEntry(filer, pages, e, failing)] : e \in field_values},
           LAMBDA passes :
    IF \E p \in passes : p.did.raised # None
    THEN Exc((CHOOSE p \in passes : p.did.raised # None).did.raised[1],
             [filled |-> 0, errors |-> {}, document |-> {}])
    ELSE Ok([filled   |-> Cardinality({p \in passes : p.did.value.page # None}),
             errors   |-> {p.did.value.error[1] :
                               p \in {p \in passes : p.did.value.error # None}},
             document |-> {[page  |-> p.did.value.page[1],
                            name  |-> p.entry.key.s,
                            value |-> PyStr(p.entry.value)] :
                               p \in {p \in passes : p.did.value.page # None}}]))

\* The pages of a template as the writer holds them (page_fields), for the
\* field ids names of the map being filled:
\* "as_routed" has each name on the page _page_for_field gives, "elsewhere"
\* on the page after it, "everywhere" on all three, "nowhere" on none;
\* "two_pages" and "one_page" are shorter templates that own every name.
Layouts == {"as_routed", "elsewhere", "everywhere", "nowhere", "two_pages", "one_page"}

Candidate(filer, name) == page_for_field(filer, JStr(name)).value

PagesOf(layout, filer, names) ==
    CASE layout = "as_routed" ->
            [idx \in 1 .. 3 |-> {n \in names : Candidate(filer, n) = idx - 1}]
      [] layout = "elsewhere" ->
            [idx \in 1 .. 3 |-> {n \in names : (Candidate(filer, n) + 1) % 3 = idx - 1}]
      [] layout = "everywhere" -> [idx \in 1 .. 3 |-> names]
      [] layout = "nowhere" -> [idx \in 1 .. 3 |-> {}]
      [] layout = "two_pages" ->
            << {n \in names : Candidate(filer, n) = 0},
               {n \in names : Candidate(filer, n) # 0} >>
      [] layout = "one_page" -> << names >>

\* The field ids whose update_page_form_field_values raises: none, all, or
\* those that end in "1".
UpdateFailures == {"none", "some", "all"}

Failing(failures, names) ==
    CASE failures = "none" -> {}
      [] failures = "all" -> names
      [] failures = "some" -> {n \in names : Slice(n, Len(n) - 1, Len(n)) = "1"}

\* The result dict of fill_from_dict (lines 204-213 and 250-259).
ResultOf(report_id, report_type, case, fill) ==
    [status        |-> "success",
     report_id     |-> report_id,
     case_id       |-> PyStr(Get(case, "case_id", JStr("UNKNOWN"))),
     report_type   |-> report_type,
     pdf_path      |-> << report_type, PyStr(Get(case, "case_id", JStr("UNKNOWN"))),
                          report_id >>,
     fields_filled |-> fill.filled,
     fill_errors   |-> fill.errors]

\* PostgreSQLClient().log_audit(...) of line 144: the store is reached
\* ("up") or the call raises ("down").
AuditStores == {"up", "down"}

db_log_audit(table, result, store) ==
    IF store = "down" THEN Exc("connection refused", table)
    ELSE Ok(log_audit(table, result))

\* _audit_log without its "except Exception".
filer_audit_log_raising(table, result, store) == db_log_audit(table, result, store)

\* _audit_log(result): the exception of the write is logged, not raised.
filer_audit_log(table, result, store) == Ok(db_log_audit(table, result, store).value)

\* <Filer>().fill_from_dict(case_data) on the day now, with the template laid
\* out as layout, the field updates failing as failures and the audit store
\* as store: the exception it ends with, or the result it returns, the
\* document written to pdf_path and the audit table afterwards.
fill_from_dict(filer, case_data, now, layout, failures, table, store) ==
    Assign(normalize_case_data(case_data), LAMBDA case :
    Try(IF filer = "SAR" THEN sar_map_all_fields(case, now)
        ELSE ctr_map_all_fields(case, now), LAMBDA field_values :
    Assign({e.key.s : e \in {e \in field_values : e.key.t = "str"}}, LAMBDA names :
    Assign(PagesOf(layout, filer, names), LAMBDA pages :
    Assign(Failing(failures, names), LAMBDA failing :
    Try(fill_pdf(filer, field_values, pages, failing), LAMBDA fill :
    Assign(ResultOf(1, filer, case, fill), LAMBDA result :
    Try(filer_audit_log(table, result, store), LAMBDA table_after :
    Ok([result |-> result, document |-> fill.document, table |-> table_after])))))))))

\* The cases the filers are applied to.
FilerCases ==
    {FullCase, EmptyCase, BothCase, NullTxCase, JNone}
        \cup { With(FullCase, "ctr_field_map", overrides) : overrides \in FieldMapOverrides }

\* A call of fill_from_dict on raw: the PDF is in the output directory when
\* _fill_pdf returned, and the audit table is as the call left it. The audit
\* store is up or down for the whole call.
FilerCall(filer, now, layout, failures, store) ==
    /\ filed = None
    /\ \/ /\ store = "up"
          /\ filed' = Some([filer |-> filer, now |-> now, layout |-> layout,
                            failures |-> failures, store |-> store,
                            outcome |-> fill_from_dict(filer, raw, now, layout, failures,
                                                       audit_log, "up")])
       \/ /\ store = "down"
          /\ filed' = Some([filer |-> filer, now |-> now, layout |-> layout,
                            failures |-> failures, store |-> store,
                            outcome |-> fill_from_dict(filer, raw, now, layout, failures,
                                                       audit_log, "down")])
    /\ files' = IF filed'[1].outcome.raised = None
                THEN files \cup {filed'[1].outcome.value.result.pdf_path}
                ELSE files
    /\ audit_log' = IF filed'[1].outcome.raised = None
                    THEN filed'[1].outcome.value.table
                    ELSE audit_log
    /\ UNCHANGED << pc, origin, data, job_status, exc, router_output, router_result, report_types,
                    validation_output, reports, outcome, events, polls, response,
                    raw, normalized, renormalized, classified, mapped, remapped,
                    kb_vars >>

\* SARReportFiler().fill_from_dict(raw)
SARReportFiler_fill_from_dict ==
    \E now \in Days, layout \in Layouts, failures \in UpdateFailures, store \in AuditStores :
        FilerCall("SAR", now, layout, failures, store)

\* CTRReportFiler().fill_from_dict(raw)
CTRReportFiler_fill_from_dict ==
    \E now \in Days, layout \in Layouts, failures \in UpdateFailures, store \in AuditStores :
        FilerCall("CTR", now, layout, failures, store)

FilerInit == PipelineInit /\ FunctionInit(FilerCases)

FilerNext ==
    \/ SARReportFiler_fill_from_dict
    \/ CTRReportFiler_fill_from_dict

FilerSpec == FilerInit /\ [][FilerNext]_vars

(* ------------- the knowledge base's methods as called ------------------- *)

\* For how long the schema has not been active in the store: 0 when it is.
AgeOf(report_type, schema) ==
    IF schema \in postgres[report_type] \/ schema \notin SchemaVersions THEN 0
    ELSE IF retired[schema] = None THEN clock + DefaultTtl
    ELSE clock - retired[schema][1]

\* The record of a call of the knowledge base: the method and its argument,
\* whether the read and the write of the cache raised, what the call gave,
\* and for how long the value had not been active in the store.
Looked(call, arg, get_up, set_up, got) ==
    [call |-> call, arg |-> arg,
     get_failed |-> ~get_up, set_failed |-> got.read /\ got.raised = None /\ ~set_up,
     raised |-> got.raised, value |-> got.value, read |-> got.read,
     age |-> IF call = "get_schema" /\ got.raised = None THEN AgeOf(arg, got.value) ELSE 0]

KBCall(call, arg, get_up, set_up, got) ==
    /\ looked' = Some(Looked(call, arg, get_up, set_up, got))
    /\ redis' = got.cache
    /\ UNCHANGED << pipeline_vars, case_vars, postgres, clock, retired >>

\* kb.get_schema(report_type)
get_schema ==
    \E report_type \in KBReportTypes, get_up \in BOOLEAN, set_up \in BOOLEAN :
    \E row \in (IF postgres[report_type] = {} THEN {JNone} ELSE postgres[report_type]) :
        KBCall("get_schema", report_type, get_up, set_up,
               kb_get_schema(redis, postgres, report_type, row, clock, get_up, set_up))

\* kb.get_validation_rules(report_type)
get_validation_rules ==
    \E report_type \in KBReportTypes, get_up \in BOOLEAN, set_up \in BOOLEAN :
        KBCall("get_validation_rules", report_type, get_up, set_up,
               kb_get_validation_rules(redis, report_type, clock, get_up, set_up))

\* kb.get_field_mappings(report_type)
get_field_mappings ==
    \E report_type \in KBReportTypes, get_up \in BOOLEAN, set_up \in BOOLEAN :
        KBCall("get_field_mappings", report_type, get_up, set_up,
               kb_get_field_mappings(redis, report_type, clock, get_up, set_up))

\* kb.get_risk_indicators(category)
get_risk_indicators ==
    \E category \in Categories, get_up \in BOOLEAN, set_up \in BOOLEAN :
        KBCall("get_risk_indicators", IF category = None THEN "None" ELSE category[1],
               get_up, set_up,
               kb_get_risk_indicators(redis, category, clock, get_up, set_up))

\* kb.update_schema(report_type, schema): add_schema on the store; the cache
\* is not touched.
update_schema ==
    \E report_type \in KBReportTypes, schema \in SchemaVersions :
        /\ postgres' = postgres_add_schema(postgres, report_type, schema)
        /\ looked' = Some(Looked("update_schema", report_type, TRUE, TRUE,
                                 Miss(schema, redis)))
        /\ UNCHANGED << pipeline_vars, case_vars, redis, clock, retired >>

\* Another client of the database commits a change of the active row of
\* report_schemas: none, or one schema; retired keeps when a schema ceased
\* to be active.
schema_rows_replaced ==
    \E report_type \in KBReportTypes, rows \in {{}} \cup {{v} : v \in SchemaVersions} :
        /\ rows # postgres[report_type]
        /\ postgres' = [postgres EXCEPT ![report_type] = rows]
        /\ retired' = [v \in SchemaVersions |->
                          IF v \in postgres[report_type] \ rows THEN Some(clock)
                          ELSE retired[v]]
        /\ UNCHANGED << pipeline_vars, case_vars, redis, clock, looked >>

\* Time passes; Redis drops the entries that have expired.
Tick ==
    /\ clock < MaxClock
    /\ clock' = clock + TickLength
    /\ redis' = [k \in CacheKeys |->
                    IF redis[k] # None /\ redis[k][1].expires <= clock + TickLength
                    THEN None ELSE redis[k]]
    /\ UNCHANGED << pipeline_vars, case_vars, postgres, looked, retired >>

KBInit == PipelineInit /\ FunctionInit({EmptyCase})

KBNext ==
    \/ get_schema
    \/ get_validation_rules
    \/ get_field_mappings
    \/ get_risk_indicators
    \/ update_schema
    \/ schema_rows_replaced
    \/ Tick

KBSpec == KBInit /\ [][KBNext]_vars


(* ============================== claims ================================= *)

Called(r, stage) == InSeq(<< "call", stage >>, events[r])

ReturnedFrom(r, stage) == InSeq(<< "return", stage >>, events[r])

\* The run is over: its caller has returned or an exception escaped it.
Over(r) == pc[r] \in {"finished", "crashed"}

\* Some external call of the run raised.
StageRaised(r) == \E s \in Stages : InSeq(<< "raise", s >>, events[r])

\* What the classifier gives for the run's case.
Required(r) == determine_report_types(normalized_case(r))

StatusMoves ==
    { << "pending", "processing" >>, << "processing", "completed" >>,
      << "processing", "failed" >> }

\* C1: the persisted status of a job only moves pending -> processing ->
\* completed or failed: submit_report leaves the job persisted in pending,
\* processing is persisted when the pipeline of the job starts, a row is never
\* removed, and every change of a row's status is one of the three moves (so
\* completed and failed are never left).
C1_StatusPath ==
    [][\A r \in Runs :
         /\ (pc[r] = "new" /\ pc'[r] = "queued")
               => (HasRow(job_status', r) /\ job_status'[r].status = "pending")
         /\ (pc[r] = "queued" /\ pc'[r] = "router")
               => (HasRow(job_status', r) /\ job_status'[r].status = "processing")
         /\ HasRow(job_status, r) => HasRow(job_status', r)
         /\ (HasRow(job_status, r) /\ HasRow(job_status', r)
               /\ job_status'[r].status # job_status[r].status)
               => << job_status[r].status, job_status'[r].status >> \in StatusMoves
      ]_vars

\* C2: when a step of run_crew_workflow raised, the job ends with status
\* failed, error_message equal to the exception's message and a null result,
\* and no stage of the pipeline is running or started afterwards.
C2_FailureRecorded ==
    \A r \in Runs :
        (origin[r] = "api" /\ exc[r] # None /\ Over(r))
            => /\ HasRow(job_status, r)
               /\ job_status[r].status = "failed"
               /\ job_status[r].error_message = exc[r]
               /\ job_status[r].result = None
               /\ pc[r] \notin Stages

\* C5: once submit_report has returned the job id, the job row is persisted
\* (pending, progress 0 and the submitted input until the workflow writes),
\* get_job finds it, and a status query answers with the row, not with 404.
C5_JobPersisted ==
    \A r \in Runs :
        origin[r] = "api"
            => /\ get_job(job_status, r) # None
               /\ job_status[r].input_data = data[r]
               /\ pc[r] = "queued"
                     => (job_status[r].status = "pending" /\ job_status[r].progress = 0)
               /\ response[r] # None => response[r][1].code = 200

\* C6: when the classifier yields no report types and the router call has
\* returned, the finished run has returned the no_filing_required result, a
\* job ends completed, and no stage other than the router was ever invoked.
C6_NoFilingShortCircuit ==
    \A r \in Runs :
        (Over(r) /\ ReturnedFrom(r, "router")
                 /\ Required(r).raised = None /\ Required(r).value = << >>)
            => /\ outcome[r].returned # None
               /\ outcome[r].returned[1].final.status = "no_filing_required"
               /\ origin[r] = "api"
                     => (HasRow(job_status, r) /\ job_status[r].status = "completed")
               /\ \A s \in Stages \ {"router"} : ~Called(r, s)
               /\ reports[r] = << >>


\* The validator's verdict is a rejection in the sense of the claim: the
\* flag is false or missing, or the output did not parse (which leaves the
\* empty dict, so the flag is missing).
Rejected(r) ==
    /\ validation_output[r] # None
    /\ HasGet(validation_output[r][1])
    /\ validation_output[r][1].approval_flag \in {"False", "<absent>"}

\* Filing was approved: the gate read a true approval_flag.
Approved(r) ==
    /\ validation_output[r] # None
    /\ HasGet(validation_output[r][1])
    /\ Truthy(validation_output[r][1].approval_flag)

C8_CtrOnlyFiles ==
    \A r \in Runs :
        (Over(r) /\ ReturnedFrom(r, "router") /\ ~StageRaised(r)
                 /\ Required(r).raised = None /\ Required(r).value = << "CTR" >>)
            => /\ \A s \in {"aggregator", "narrative", "validator"} : ~Called(r, s)
               /\ Len(reports[r]) = 1
               /\ reports[r][1].report_type = "CTR"

\* The report types of the results produced so far.
TypesOf(reps) == [i \in DOMAIN reps |-> reps[i].report_type]

\* C9: at most one FilingResult exists per required type, CTR before SAR, and
\* none for a type that is not required; when filing was approved and the
\* pipeline returned, there is exactly one per required type, and the final
\* result is the lone FilingResult for one type and the wrapper
\* {status: success, reports: [CTR result, SAR result]} for both.
C9_OneResultPerType ==
    \A r \in Runs :
        /\ TypesOf(reports[r]) \in {<< >>, << "CTR" >>, << "SAR" >>, << "CTR", "SAR" >>}
        /\ \A i \in DOMAIN reports[r] :
              /\ InSeq(reports[r][i].report_type, report_types[r])
              /\ reports[r][i].status = "success"
              /\ reports[r][i].pdf_path \in files
        /\ (outcome[r].returned # None /\ Approved(r))
              => /\ TypesOf(reports[r]) = report_types[r]
                 /\ Len(reports[r]) = 1 => outcome[r].returned[1].final = reports[r][1]
                 /\ Len(reports[r]) = 2 =>
                       outcome[r].returned[1].final =
                           [status |-> "success", reports |-> reports[r]]

\* An approved run that required both types has returned.
C9_Witness ==
    \E r \in Runs :
        /\ outcome[r].returned # None
        /\ Approved(r)
        /\ report_types[r] = << "CTR", "SAR" >>
        /\ Len(reports[r]) = 2
        /\ outcome[r].returned[1].final.status = "success"

\* The position of a stage in the pipeline.
Rank(stage) ==
    CASE stage = "router" -> 1 [] stage = "researcher" -> 2
      [] stage = "aggregator" -> 3 [] stage = "narrative" -> 4
      [] stage = "validator" -> 5 [] stage = "ctr_filer" -> 6
      [] stage = "sar_filer" -> 7

\* C10: the stages of a run are strictly sequential: every call is followed
\* by its own return or raise before any other call, the calls are in
\* pipeline order and no stage is called twice, a run is blocked in a stage
\* exactly when that stage's call is its last event, and a filer is called
\* only once the validation outcome is known (after the validator returned
\* when SAR is required).
C10_StagesSequential ==
    \A r \in Runs :
        LET ev == events[r] IN
        /\ \A i \in DOMAIN ev :
              /\ ev[i][1] = "call" =>
                    /\ (i > 1 => ev[i - 1][1] = "return")
                    /\ (i < Len(ev) => (ev[i + 1][1] \in {"return", "raise"}
                                         /\ ev[i + 1][2] = ev[i][2]))
              /\ ev[i][1] # "call" => (i > 1 /\ ev[i - 1] = << "call", ev[i][2] >>)
        /\ \A i, j \in DOMAIN ev :
              (i < j /\ ev[i][1] = "call" /\ ev[j][1] = "call")
                  => Rank(ev[i][2]) < Rank(ev[j][2])
        /\ pc[r] \in Stages <=> (ev # << >> /\ ev[Len(ev)] = << "call", pc[r] >>)
        /\ \A f \in {"ctr_filer", "sar_filer"} :
              Called(r, f) =>
                  /\ validation_output[r] # None
                  /\ InSeq("SAR", report_types[r]) => ReturnedFrom(r, "validator")

\* A run that went through all seven stages and returned.
C10_Witness ==
    \E r \in Runs :
        /\ outcome[r].returned # None
        /\ \A s \in Stages : ReturnedFrom(r, s)


\* The router call of the run returned and create_compliance_crew went on to
\* its branches with the router's answer decoded to an object.
Routed(r) == ReturnedFrom(r, "router") /\ router_output[r] # None

\* The router reported the schema missing.
SchemaMissing(r) == router_output[r] # None /\ router_output[r][1].kb_status = "'MISSING'"

\* The stages that follow the researcher: the SAR sub-pipeline and the filers.
LaterStages == {"aggregator", "narrative", "validator", "ctr_filer", "sar_filer"}

Classified ==
    /\ classified # None
    /\ classified[1].total.raised = None
    /\ classified[1].suspicious.raised = None
    /\ classified[1].types.raised = None

\* C12: determine_report_types returns [] when the cash total is below 10000
\* and no suspicion holds, ["CTR"] when the total is 10000 or more and no
\* suspicion holds, ["SAR"] when suspicion holds and the total is below 10000,
\* and ["CTR", "SAR"] in that order when both hold, and nothing else.
C12_ReportTypes ==
    Classified =>
        LET ctr == classified[1].total.value >= 10000
            sar == classified[1].suspicious.value
        IN  classified[1].types.value =
                (IF ctr /\ sar THEN << "CTR", "SAR" >>
                 ELSE IF ctr THEN << "CTR" >>
                 ELSE IF sar THEN << "SAR" >>
                 ELSE << >>)

\* A case classified with a cash total of exactly 10000 and no suspicion.
C12_Witness ==
    /\ Classified
    /\ classified[1].total.value = 10000
    /\ ~classified[1].suspicious.value
    /\ classified[1].types.value = << "CTR" >>

\* The "transactions" of raw when it is a case object holding a list of
\* transaction objects, each with the key "amount"; << >> otherwise.
AmountTransactions ==
    IF IsDict(raw) /\ "transactions" \in DOMAIN raw.kv
          /\ IsList(raw.kv.transactions) /\ raw.kv.transactions.xs # << >>
          /\ \A i \in DOMAIN raw.kv.transactions.xs :
                /\ IsDict(raw.kv.transactions.xs[i])
                /\ "amount" \in DOMAIN raw.kv.transactions.xs[i].kv
    THEN raw.kv.transactions.xs
    ELSE << >>

\* The sum of "amount" over the transactions whose tags hold a cash token.
RECURSIVE SumOfAmount(_)
SumOfAmount(txs) ==
    IF txs = << >> THEN 0
    ELSE (IF is_cash_transaction(Head(txs)).value
          THEN Head(txs).kv.amount.n ELSE 0) + SumOfAmount(Tail(txs))

\* C13: the cash total is the sum of "amount" over exactly the transactions
\* whose instrument, product or type text holds a cash token; four
\* cash_deposit transactions with the amounts 9200, 9500, 9800 and 9100 and no
\* suspicious flag give the total 37600 and the report types ["CTR"].
C13_CashTotalOfAmount ==
    (Classified /\ AmountTransactions # << >>) =>
        /\ classified[1].total.value = SumOfAmount(AmountTransactions)
        /\ (AmountTransactions =
                << SampleTxn(9200), SampleTxn(9500), SampleTxn(9800), SampleTxn(9100) >>
              /\ ~classified[1].suspicious.value)
              => /\ classified[1].total.value = 37600
                 /\ classified[1].types.value = << "CTR" >>

\* A group's value is populated in the sense of the claim: true, a number
\* other than 0, a text, an object with a member, or a list with a populated
\* item; null, false, "", [] and {} are not.
RECURSIVE Populated(_)
Populated(value) ==
    CASE value.t = "null" -> FALSE
      [] value.t \in {"bool", "num"} -> value.n # 0
      [] value.t = "str"  -> value.s # ""
      [] value.t = "dict" -> DOMAIN value.kv # {}
      [] value.t = "list" -> \E i \in DOMAIN value.xs : Populated(value.xs[i])

\* The texts under a key of the alert, a lone text counting as a list of one.
AlertTexts(case, key) ==
    IF "alert" \in DOMAIN case.kv /\ IsDict(case.kv.alert)
    THEN to_list(Get(case.kv.alert, key, JNone))
    ELSE << >>

\* Some text of the sequence holds a token of the suspicion lexicon, in any
\* letter case.
HoldsSuspicionToken(texts) ==
    \E i \in DOMAIN texts :
        \E token \in {"structur", "fraud", "launder", "suspicious", "terror",
                      "sanction", "unusual", "no apparent", "kiting", "embezz"} :
            Contains(lower(texts[i]), token)

\* C14: SAR is required iff one of the six indicator groups of the normalized
\* case is populated or a red_flags or trigger_reasons text holds a token of
\* the suspicion lexicon; threshold language decides nothing, and an empty,
\* false or absent group never counts, whatever the cash total.
C14_SuspicionIff ==
    (classified # None /\ classified[1].suspicious.raised = None) =>
        LET case     == normalize_case_data(raw)
            activity == Get(case, "SuspiciousActivityInformation", EmptyDict)
        IN  classified[1].suspicious.value <=>
                \/ \E name \in {"29_Structuring", "30_TerroristFinancing", "31_Fraud",
                                "33_MoneyLaundering", "35_OtherSuspiciousActivities",
                                "38_MortgageFraud"} :
                       name \in DOMAIN activity.kv /\ Populated(activity.kv[name])
                \/ HoldsSuspicionToken(AlertTexts(case, "red_flags"))
                \/ HoldsSuspicionToken(AlertTexts(case, "trigger_reasons"))

\* C15: whatever the input's shape, none of calculate_total_cash_amount,
\* has_suspicious_activity and determine_report_types raises.
C15_ClassifierNeverRaises ==
    classified # None =>
        /\ classified[1].total.raised = None
        /\ classified[1].suspicious.raised = None
        /\ classified[1].types.raised = None

\* The positions of the items of a list value that are objects.
ObjectPositions(value) == {i \in DOMAIN value.xs : IsDict(value.xs[i])}

\* C16: normalize_case_data always returns an object: for an object, the
\* object normalized (same keys); for a list, its first item that is an
\* object, normalized; for a list with no such item and for any other value,
\* the empty object, for which determine_report_types returns [].
C16_NormalizerTotal ==
    normalized # None =>
        /\ IsDict(normalized[1])
        /\ IsDict(raw) =>
              /\ normalized[1] = normalize_obj(raw)
              /\ DOMAIN normalized[1].kv = DOMAIN raw.kv
        /\ (IsList(raw) /\ ObjectPositions(raw) # {}) =>
              LET first == CHOOSE i \in ObjectPositions(raw) :
                               \A j \in ObjectPositions(raw) : i <= j
              IN  normalized[1] = normalize_obj(raw.xs[first])
        /\ (~IsDict(raw) /\ ~(IsList(raw) /\ ObjectPositions(raw) # {})) =>
              normalized[1] = EmptyDict
        /\ normalized[1] = EmptyDict =>
              determine_report_types(normalized[1]) = Ok(<< >>)

\* A list whose first object is its fourth item was normalized to that
\* object.
C16_Witness ==
    /\ normalized # None
    /\ IsList(raw)
    /\ Len(raw.xs) > 3
    /\ ~IsDict(raw.xs[1]) /\ ~IsDict(raw.xs[2]) /\ ~IsDict(raw.xs[3])
    /\ normalized[1] = normalize_obj(raw.xs[4])
    /\ normalized[1] # EmptyDict

\* C17: the normalizer is idempotent: normalize_case_data applied to its own
\* result returns an equal value.
C17_NormalizerIdempotent ==
    renormalized # None => renormalized[1] = normalized[1]

\* A case with texts that fold (" N/A ", " Yes ") was normalized, which
\* changed it, and normalized again.
C17_Witness ==
    /\ renormalized # None
    /\ IsDict(raw)
    /\ "alert" \in DOMAIN raw.kv
    /\ raw.kv.alert = JDict([red_flags |-> Texts(<< "over 10K in one week", "", " N/A ", " Yes " >>),
                             trigger_reasons |-> JList(<< >>)])
    /\ normalized[1].kv.alert.kv.red_flags =
          JList(<< JStr("over 10K in one week"), JStr(""), JNone, JBool(TRUE) >>)
    /\ normalized[1] # raw

(* ------------------------------- C18 ----------------------------------- *)

\* The runs of a mapper made so far.
MapperRuns == {(mapped \o remapped)[i] : i \in DOMAIN (mapped \o remapped)}

\* The normalized cases in which a nested section or sub-record is absent,
\* null or of a wrong type.
MalformedSectionCases == { normalize_case_data(case) : case \in SectionVariants }

\* C18: SARFieldMapper.map_all_fields and CTRFieldMapper.map_all_fields
\* never raise for a normalized case in which a nested section (institution,
\* subject, SuspiciousActivityInformation and its date-range and amount
\* sub-records, alert, data_quality, external_signals, the law-enforcement
\* contact, transactions) is absent, null or of the wrong type.
C18_MappersNeverRaise ==
    raw \in MalformedSectionCases =>
        \A run \in MapperRuns : run.outcome.raised = None

(* ------------------------------- C19 ----------------------------------- *)

\* C19: the field map either mapper's map_all_fields returns holds no value
\* that is None or the empty string, every value is a string and every key
\* is a string, also when the case supplies ctr_field_map overrides.
C19_FieldMapOfStrings ==
    \A run \in MapperRuns :
        run.outcome.raised = None =>
            \A item \in run.outcome.value :
                /\ item.value.t = "str"
                /\ item.value.s # ""
                /\ item.key.t = "str"

(* ------------------------------- C20 ----------------------------------- *)

\* The keys under which a mapper writes the date of the run: item50-1,
\* item50-2 and item50-3 of the SAR map, the field id of prepared_date of the
\* CTR map.
DateKeys(mapper) ==
    IF mapper = "SAR" THEN {JStr("item50-1"), JStr("item50-2"), JStr("item50-3")}
    ELSE {FieldMapOf(normalize_case_data(raw))["prepared_date"]}

Undated(run) ==
    IF run.outcome.raised # None THEN run.outcome
    ELSE Ok({item \in run.outcome.value :
                \A key \in DateKeys(run.mapper) : ~SameKey(item.key, key)})

\* C20 as stated: re-running the same mapper on the same case produces an
\* identical field map; the output of map_all_fields depends on nothing but
\* the case.
C20_RerunIdentical ==
    (mapped # None /\ remapped # None) => remapped[1].outcome = mapped[1].outcome

\* C20 as amended: re-running the same mapper on the same case produces a
\* field map that is identical except for the entries that carry the date of
\* the run, and identical altogether when both runs fall on the same date;
\* the output depends on nothing but the case and the current date.
C20_RerunIdenticalButDate ==
    (mapped # None /\ remapped # None) =>
        /\ Undated(remapped[1]) = Undated(mapped[1])
        /\ remapped[1].now = mapped[1].now => remapped[1].outcome = mapped[1].outcome

\* The SAR mapper has run twice on the full case, on different days, and
\* the two field maps differ.
C20_Witness ==
    /\ raw = FullCase
    /\ mapped # None /\ remapped # None
    /\ mapped[1].mapper = "SAR"
    /\ mapped[1].now < remapped[1].now
    /\ mapped[1].outcome.raised = None
    /\ remapped[1].outcome # mapped[1].outcome

(* ---- C21: _fill_pdf never aborts on a single field ---- *)

\* The field map the recorded call of fill_from_dict passed to _fill_pdf
\* (the outcome of the mapper), and what _fill_pdf did with it.
FieldValuesOf(call) ==
    IF call.filer = "SAR" THEN sar_map_all_fields(normalize_case_data(raw), call.now)
    ELSE ctr_map_all_fields(normalize_case_data(raw), call.now)

NamesOf(fields) == {e.key.s : e \in {e \in fields : e.key.t = "str"}}

FillOf(call, fields) ==
    fill_pdf(call.filer, fields, PagesOf(call.layout, call.filer, NamesOf(fields)),
             Failing(call.failures, NamesOf(fields)))

\* The entry was counted in filled (its value is in the document, once) or
\* has exactly one error string, which starts with its field id: not both.
Accounted(entry, fill) ==
    LET written == {w \in fill.document : w.name = PyStr(entry.key)}
        errs    == {text \in fill.errors : startswith(text, PyStr(entry.key) \o ": ")}
    IN  \/ Cardinality(written) = 1 /\ errs = {}
        \/ written = {} /\ Cardinality(errs) = 1

FillAccountsForAll(fields, fill) ==
    /\ fill.raised = None
    /\ \A e \in fields : Accounted(e, fill.value)
    /\ fill.value.filled + Cardinality(fill.value.errors) = Cardinality(fields)

\* C21: for every field map handed to _fill_pdf, the call returns, and every
\* entry is either counted in filled or has exactly one error string that
\* starts with its field id, so that filled + len(errors) = len(field map).
C21_FillNeverAborts ==
    filed # None =>
        Assign(FieldValuesOf(filed[1]), LAMBDA fields :
            fields.raised = None =>
                FillAccountsForAll(fields.value, FillOf(filed[1], fields.value)))

\* The same for the field maps whose keys are all strings.
StringKeysNeverAbort ==
    filed # None =>
        Assign(FieldValuesOf(filed[1]), LAMBDA fields :
            (fields.raised = None /\ \A e \in fields.value : e.key.t = "str") =>
                FillAccountsForAll(fields.value, FillOf(filed[1], fields.value)))

(* ---- C22: page routing ---- *)

\* The page index the priority of the claim gives a field id: the explicit
\* page-3 set, then the page-3 prefixes, then the page-2 prefixes, else the
\* first page.
ByPriority(filer, name) ==
    IF name \in PAGE3_FIELDS(filer) THEN 2
    ELSE IF \E prefix \in PAGE3_PREFIXES(filer) : startswith(name, prefix) THEN 2
    ELSE IF \E prefix \in PAGE2_PREFIXES(filer) : startswith(name, prefix) THEN 1
    ELSE 0

\* The entry of a string key is routed as the claim says: it is written to
\* its candidate page when that page owns it, else to a page that owns it,
\* and it has an error only when no page owns it.  An entry whose update
\* raised is left aside: its error is no matter of routing.
RoutedAsClaimed(filer, pages, failing, entry, fill) ==
    LET name    == entry.key.s
        written == {w \in fill.document : w.name = name}
        errs    == {text \in fill.errors : startswith(text, name \o ": ")}
    IN  /\ Candidate(filer, name) = ByPriority(filer, name)
        /\ \A w \in written :
              /\ w.page \in Owners(pages, name)
              /\ ByPriority(filer, name) \in Owners(pages, name)
                    => w.page = ByPriority(filer, name)
        /\ name \notin failing => (errs # {} <=> Owners(pages, name) = {})

\* C22: every field is written to its candidate page (page-3 field set, then
\* page-3 prefixes, then page-2 prefixes, else page 1) when that page owns
\* it, else to a page that owns it, and an error is recorded for a field
\* only when no page of the template owns it.
C22_PageRouting ==
    filed # None =>
        Assign(FieldValuesOf(filed[1]), LAMBDA fields :
            (fields.raised = None /\ \A e \in fields.value : e.key.t = "str") =>
                Assign(FillOf(filed[1], fields.value), LAMBDA fill :
                    \A e \in fields.value :
                        RoutedAsClaimed(filed[1].filer,
                                        PagesOf(filed[1].layout, filed[1].filer,
                                                NamesOf(fields.value)),
                                        Failing(filed[1].failures, NamesOf(fields.value)),
                                        e, fill.value)))

\* The same for the templates that have at least three pages.
RoutingOnThreePages ==
    (filed # None /\ filed[1].layout \notin {"two_pages", "one_page"}) => C22_PageRouting

(* ---- C23: a failed audit write never fails or changes the filing ---- *)

\* What the recorded call would have given with the audit store reached.
WithAuditWritten(call) ==
    fill_from_dict(call.filer, raw, call.now, call.layout, call.failures, {}, "up")

\* C23: when the audit write of _audit_log raises, fill_from_dict raises
\* nothing because of it and returns the FilingResult, and writes the
\* document, that it returns and writes when the audit write succeeds.
C23_AuditFailureIsSwallowed ==
    (filed # None /\ filed[1].store = "down") =>
        Assign(WithAuditWritten(filed[1]), LAMBDA written :
            /\ filed[1].outcome.raised = written.raised
            /\ filed[1].outcome.raised = None =>
                  /\ filed[1].outcome.value.result = written.value.result
                  /\ filed[1].outcome.value.document = written.value.document
                  /\ filed[1].outcome.value.result.pdf_path \in files)

\* A filer returned its result, with fields written, though the audit write
\* raised.
C23_Witness ==
    /\ filed # None
    /\ filed[1].store = "down"
    /\ filed[1].outcome.raised = None
    /\ filed[1].outcome.value.result.fields_filled > 0
    /\ filed[1].outcome.value.result.status = "success"

(* ---- C24: the lookups are read-through and best-effort ---- *)

\* The entry under the key that is within its TTL at the time of the call.
LiveEntry(key) ==
    IF redis[key] # None /\ clock < redis[key][1].expires
    THEN Some(json_loads(redis[key][1].raw)) ELSE None

\* What the store gives for the lookup: the exception of get_schema when
\* there is no active schema, else the rows.
StoreValue(call, row) ==
    CASE call = "get_schema" ->
            IF postgres["SAR"] = {}
            THEN Exc("Schema not found in PostgreSQL for SAR", JNone) ELSE Ok(row)
      [] call = "get_validation_rules" -> Ok(RuleRows)
      [] call = "get_field_mappings" -> Ok(MappingRows)
      [] call = "get_risk_indicators" -> Ok(JList(IndicatorRows))

KeyOf(call) ==
    CASE call = "get_schema" -> "schema:SAR"
      [] call = "get_validation_rules" -> "validation_rules:SAR"
      [] call = "get_field_mappings" -> "field_mappings:SAR"
      [] call = "get_risk_indicators" -> "risk_indicators:all"

ItemOf(call) ==
    CASE call = "get_validation_rules" -> "rules"
      [] call = "get_field_mappings" -> "mappings"
      [] call = "get_risk_indicators" -> "indicators"
      [] call = "get_schema" -> ""

Lookups ==
    {"get_schema", "get_validation_rules", "get_field_mappings", "get_risk_indicators"}

\* A step that is a lookup (time and the store stand still) did what the
\* claim says of it.
LookupAsClaimed ==
    (looked' # None /\ looked'[1].call \in Lookups /\ clock' = clock /\ postgres' = postgres) =>
        LET call  == looked'[1]
            entry == LiveEntry(KeyOf(call.call))
        IN  IF entry # None /\ ~call.get_failed
            THEN \* a cached entry within its TTL: returned, the store not read
                 /\ call.raised = None
                 /\ ~call.read
                 /\ call.value = IF call.call = "get_schema" THEN entry[1]
                                 ELSE entry[1].kv[ItemOf(call.call)]
                 /\ redis' = redis
            ELSE \* otherwise the store's value, also when the cache raised
                 /\ call.read
                 /\ \E row \in postgres["SAR"] \cup {JNone} :
                       /\ call.raised = StoreValue(call.call, row).raised
                       /\ call.value = StoreValue(call.call, row).value
                 /\ (call.raised = None /\ ~call.set_failed) =>
                       /\ redis'[KeyOf(call.call)] # None
                       /\ redis'[KeyOf(call.call)][1].expires = clock + DefaultTtl

\* C24: a lookup returns the cached entry that is within its TTL of 300
\* without reading the store, and else the store's value; when the read or
\* the write of the cache raises, the lookup does not fail and returns the
\* store's value as without a cache.
C24_ReadThroughBestEffort == [][LookupAsClaimed]_vars

\* A lookup returned the store's value though the cache raised on the read
\* and on the write, and a lookup was answered from the cache.
C24_Witness ==
    /\ looked # None
    /\ looked[1].call \in Lookups
    /\ looked[1].get_failed
    /\ looked[1].set_failed
    /\ looked[1].raised = None
    /\ looked[1].read
    /\ looked[1].value \in SchemaVersions \cup {RuleRows}

CacheHitReached ==
    /\ looked # None
    /\ looked[1].call = "get_schema"
    /\ ~looked[1].read
    /\ looked[1].value \in SchemaVersions
    /\ clock > 0

(* ---- C30: cached reads have bounded staleness ---- *)

\* A schema get_schema returned was active in the store less than the TTL
\* before the call.
StalenessBounded ==
    (looked # None /\ looked[1].call = "get_schema" /\ looked[1].raised = None) =>
        /\ looked[1].value \in SchemaVersions
        /\ looked[1].age < DefaultTtl

\* update_schema neither removes nor rewrites a cache entry.
UpdateLeavesCache ==
    (looked' # None /\ looked'[1].call = "update_schema" /\ looked' # looked) =>
        redis' = redis

Position(text, token) ==
    LET at == {i \in 1 .. (Len(text) - Len(token) + 1) :
                   SubSeq(text, i, i + Len(token) - 1) = token}
    IN  IF at = {} THEN 0 ELSE CHOOSE i \in at : \A j \in at : i <= j

\* The value of a field of a field map, "" when the map has no such field.
FieldOf(fields, name) ==
    IF \E e \in fields : e.key = JStr(name)
    THEN (CHOOSE e \in fields : e.key = JStr(name)).value.s ELSE ""

\* The populated categories among a set of suspicious-activity groups.
PopulatedOf(activity, groups) ==
    {name \in groups : has_items(Get(activity, name, JNone))}

\* The narrative has a block for the category: the items of the category
\* joined with "; " after a title, placed after the transaction lines and
\* before the data-quality notes and the adverse media.
HasBlockFor(narrative, activity, name) ==
    LET block == ": " \o Join(sar_to_list(Get(activity, name, JNone)), "; ")
    IN  /\ Position(narrative, block) > 0
        /\ Position(narrative, "TRANSACTIONS (") < Position(narrative, block)
        /\ Position(narrative, "\n\nNOTES: ") > 0
              => Position(narrative, block) < Position(narrative, "\n\nNOTES: ")
        /\ Position(narrative, "\n\nADVERSE MEDIA: ") > 0
              => Position(narrative, block) < Position(narrative, "\n\nADVERSE MEDIA: ")

\* item51 of a SAR field map for the normalized case is as the claim says,
\* with a block for each of the groups when synthesized.
NarrativeAsClaimed(case, fields, groups) ==
    Assign(FieldOf(fields, "item51"), LAMBDA narrative :
    Assign(normalize_scalar(Get(case, "narrative", JNone)), LAMBDA provided :
    /\ Len(narrative) <= NarrativeLimit
    /\ IF provided.t = "str" /\ provided.s # ""
       THEN narrative = Slice(provided.s, 0, NarrativeLimit)
       ELSE /\ Position(narrative, "SUBJECT: ") = 1
            /\ Len(narrative) < NarrativeLimit =>
                  \A name \in PopulatedOf(Activity(case), groups) :
                      HasBlockFor(narrative, Activity(case), name)))

SarMapReturned ==
    /\ mapped # None
    /\ mapped[1].mapper = "SAR"
    /\ mapped[1].outcome.raised = None
    /\ IsDict(normalize_case_data(raw))

\* C26: item51 is the pre-authored narrative cut to 4000 characters when
\* the case has one; otherwise it is synthesized in the fixed order, with
\* one block for every populated suspicious-activity category after the
\* transaction lines and before the notes and adverse media, and cut to
\* 4000 characters.
C26_NarrativeField ==
    SarMapReturned =>
        NarrativeAsClaimed(normalize_case_data(raw), mapped[1].outcome.value,
                           SuspiciousFields)

\* The same with a block for the four categories 29, 31, 33 and 35 only.
NarrativeOfFourCategories ==
    SarMapReturned =>
        NarrativeAsClaimed(normalize_case_data(raw), mapped[1].outcome.value,
                           {"29_Structuring", "31_Fraud", "33_MoneyLaundering",
                            "35_OtherSuspiciousActivities"})

(* ------------------------------- C27 ----------------------------------- *)

\* The names of the amount fields of the SAR form.
AmountFields == {"item34-" \o ToString(i) : i \in 1 .. 11}

\* The amount involved of the submitted case as the mapper reads it, and its
\* integer part as a decimal text ("0" when the case names no amount).
AmountInvolved ==
    Get(Get(Activity(normalize_case_data(raw)), "26_AmountInvolved", EmptyDict),
        "amount_usd", JNum(0))

IntegerPart == PyFloatDecimal(PyOr(AmountInvolved, JNum(0))).value

\* The amount fields of the mapped field map read in order.
AmountRead ==
    LET fields == mapped[1].outcome.value
        RECURSIVE Read(_)
        Read(i) == IF i > 11 THEN ""
                   ELSE FieldOf(fields, "item34-" \o ToString(i)) \o Read(i + 1)
    IN  Read(1)

AmountFieldsAsClaimed ==
    LET fields == mapped[1].outcome.value
        names  == {e.key.s : e \in {e \in fields :
                       e.key.t = "str" /\ startswith(e.key.s, "item34-")}}
    IN  /\ names = AmountFields
        /\ \A name \in names : FieldOf(fields, name) \in Digits
        /\ Len(AmountRead) = 11
        /\ StripZeros(AmountRead) = IntegerPart

\* C27: for every involved amount, the SAR field map has exactly the eleven
\* fields item34-1 .. item34-11, each holding a single decimal digit, and
\* read in order they are the zero-padded 11-digit decimal representation of
\* the integer part of the amount.
C27_AmountDigits == SarMapReturned => AmountFieldsAsClaimed

\* What the mapper does keep: the statement for the amounts of at most eleven
\* digits that are not negative.
AmountDigitsInRange ==
    (SarMapReturned /\ IsDigits(IntegerPart) /\ Len(IntegerPart) <= 11)
        => AmountFieldsAsClaimed

\* A mapped case whose amount has eleven digits, the widest the form holds.
ElevenDigitAmountMapped ==
    SarMapReturned /\ IntegerPart = "99999999999" /\ AmountFieldsAsClaimed

(* ------------------------------- C28 ----------------------------------- *)

\* determine_report_types of the normalized case of a run.
DeterminedTypes(r) == determine_report_types(normalized_case(r)).value

\* The report types of the reports a run filed.
FiledTypes(r) == {reports[r][i].report_type : i \in DOMAIN reports[r]}

\* The router agent of the run stated report types of its own, and they are
\* not those of the case.
AgentSaidOtherwise(r) ==
    /\ router_result[r] # None
    /\ "report_types" \in DOMAIN parse_jsonish(router_result[r][1])
    /\ parse_jsonish(router_result[r][1]).report_types[1] # DeterminedTypes(r)

\* The router's kickoff returns in this step: the types the run keeps from
\* then on, and the types its router record names, are those of the case.
RouterStepTakesTheCase(r) ==
    router_result'[r] # router_result[r] =>
        /\ report_types'[r] = DeterminedTypes(r)
        /\ router_output'[r] # None =>
              router_output'[r][1].report_types = DeterminedTypes(r)

\* No other step changes the case, the types or the router record of a run
\* whose router has returned.
TypesAreKept(r) ==
    router_result[r] # None =>
        /\ data'[r] = data[r]
        /\ report_types'[r] = report_types[r]
        /\ router_output'[r] = router_output[r]

\* The types kept at the router's return are the types recorded and the types
\* every decision of the run follows: the result returned for the job, the
\* branches taken and the filers called.
DecisionsFollowTheTypes(r) ==
    LET types == report_types[r] IN
    /\ router_result[r] = None => types = << >> /\ router_output[r] = None
    /\ router_output[r] # None => router_output[r][1].report_types = types
    /\ outcome[r].returned # None =>
          /\ outcome[r].returned[1].router.report_types = types
          /\ (outcome[r].returned[1].final.status = "no_filing_required") = (types = << >>)
    /\ Called(r, "researcher") => types # << >>
    /\ Called(r, "aggregator") => InSeq("SAR", types)
    /\ Called(r, "ctr_filer") => InSeq("CTR", types)
    /\ Called(r, "sar_filer") => InSeq("SAR", types)
    /\ FiledTypes(r) \subseteq {types[i] : i \in DOMAIN types}
    /\ (outcome[r].returned # None /\ reports[r] # << >>) =>
          FiledTypes(r) = {types[i] : i \in DOMAIN types}

\* Two finished runs on the same case whose router agents' answers differ at
\* most in report_types, report_type and total_cash_amount, with the same
\* validator answer and no call that raised.
DifferOnlyInRouterSays(r1, r2) ==
    /\ data[r1] = data[r2]
    /\ outcome[r1].returned # None /\ outcome[r2].returned # None
    /\ router_result[r1] # None /\ router_result[r2] # None
    /\ parse_jsonish(router_result[r1][1]).jtype = parse_jsonish(router_result[r2][1]).jtype
    /\ parse_jsonish(router_result[r1][1]).kb_status
           = parse_jsonish(router_result[r2][1]).kb_status
    /\ validation_output[r1] = validation_output[r2]

SameReportsFiled ==
    \A r1, r2 \in Runs :
        DifferOnlyInRouterSays(r1, r2) =>
            /\ FiledTypes(r1) = FiledTypes(r2)
            /\ outcome[r1].returned[1].router = outcome[r2].returned[1].router

FilesOf(r) == {path \in files : path[3] = r}

AuditEntriesOf(r) == {entry \in audit_log : entry.entity_id[3] = r}

\* create_compliance_crew raised: run_crew_workflow's handler marks the job
\* of such a run failed (routes.py, lines 23-25).
EndedFailed(r) == outcome[r].raised # None

\* C29: filing is all-or-nothing with respect to the outcome: a run that ends
\* failed has written no output PDF and recorded no report_filed audit entry,
\* also when CTR and SAR are both required and the second filer raises after
\* the first has finished.
C29_FilingAllOrNothing ==
    \A r \in Runs : EndedFailed(r) => FilesOf(r) = {} /\ AuditEntriesOf(r) = {}

\* What the code does keep: a failed run for which at most one report type is
\* required has filed nothing, and no failed run has recorded an audit entry.
LoneFilingAllOrNothing ==
    \A r \in Runs :
        EndedFailed(r) =>
            /\ Len(report_types[r]) <= 1 => FilesOf(r) = {}
            /\ AuditEntriesOf(r) = {}

\* The CTR filer has finished and the SAR filer raised.
SecondFilerRaised ==
    \E r \in Runs :
        /\ EndedFailed(r)
        /\ InSeq(<< "return", "ctr_filer" >>, events[r])
        /\ InSeq(<< "raise", "sar_filer" >>, events[r])
        /\ FilesOf(r) # {}

=============================================================================
